---- MODULE Spec2Model ----
(***************************************************************************)
(* Model of the Olarm integration: the coordinator that caches the device  *)
(* struct (one HTTP fetch, then MQTT payloads), the area panels, the       *)
(* binary sensors and the buttons that sit on top of it.                   *)
(*                                                                         *)
(* Python dicts are functions with a string domain; a key that is missing  *)
(* in the dict is missing in the domain.  Python lists are sequences; the  *)
(* source's indices are 0-based and are kept 0-based in the entity fields, *)
(* so element i of a list l is l[i + 1].  "None" stands for Python's None. *)
(***************************************************************************)
EXTENDS Integers, Sequences, FiniteSets, TLC

VARIABLES
    entry,        \* config entry data: device_id, load_zones_bypass_entities
    pc,           \* "new" (no fetch yet), "ready" (fetch succeeded), "running"
                  \* (platforms set up), "failed" (fetch failed)
    data,         \* coordinator.data: NoData or an OlarmDeviceData record
    setupRaised,  \* per platform set up: the exception its async_setup_entry
                  \* ended with, or "None"
    panels,       \* the area panels added to the host (by area_index + 1)
    sensors,      \* the binary sensors built by binary_sensor.async_setup_entry
    sensorsAdded, \* TRUE once async_add_entities(sensors) was reached
    buttons,      \* the buttons added to the host
    getDeviceCalls, \* number of get_device calls made so far
    apiCalls,     \* outbound client calls made by the last action
    published,    \* number of async_set_updated_data calls of the last action
    raised,       \* the exception the last action ended with, or "None"
    received,     \* <<deviceState>> most recently received (fetch or MQTT)
    dispatched,   \* the entities whose _handle_coordinator_update ran in the
                  \* last action
    oldPanels,    \* the legacy area panels (alarm_control_panel_old.py)
    oldApiCalls,  \* the coordinator calls the legacy panels made during the
                  \* last action
    lastOp,       \* which operation ran last, with its inputs
    flow,         \* the config flow in progress: the handler's fields, the
                  \* step it waits at and the result of its last step
    configEntries \* the config entries of this integration the host holds

vars == <<entry, pc, data, setupRaised, panels, sensors, sensorsAdded, buttons,
          getDeviceCalls, apiCalls, published, raised, received, dispatched,
          oldPanels, oldApiCalls, lastOp, flow, configEntries>>

----------------------------------------------------------------------------
(* Bounds of the model *)

MaxAreas == 2
MaxZones == 1

----------------------------------------------------------------------------
(* Python dict helpers *)

EmptyDict == [k \in {} |-> k]

Has(d, k) == k \in DOMAIN d

Get(d, k, default) == IF k \in DOMAIN d THEN d[k] ELSE default

----------------------------------------------------------------------------
(* alarm_control_panel.py *)

DISARMED == "disarmed"
ARMED_HOME == "armed_home"
ARMED_AWAY == "armed_away"
ARMED_NIGHT == "armed_night"
TRIGGERED == "triggered"
ARMED_CUSTOM_BYPASS == "armed_custom_bypass"
PENDING == "pending"

STATE_MAP_sleep_as_home ==
    [k \in {"disarm", "notready"} |-> DISARMED]
    @@ [k \in {"stay", "stayarm1", "stayarm2", "stayarm3", "stayarm4", "sleep"}
           |-> ARMED_HOME]
    @@ [k \in {"arm"} |-> ARMED_AWAY]
    @@ [k \in {"alarm", "emergency", "fire", "medical"} |-> TRIGGERED]
    @@ [k \in {"partarm1", "partarm2", "partarm3", "partarm4",
               "customarm1", "customarm2", "customarm3", "customarm4"}
           |-> ARMED_CUSTOM_BYPASS]
    @@ [k \in {"entrydelay"} |-> PENDING]

STATE_MAP ==
    ("disarm" :> DISARMED)
    @@ ("notready" :> DISARMED)
    @@ ("stay" :> ARMED_HOME)
    @@ ("arm" :> ARMED_AWAY)
    @@ ("sleep" :> ARMED_NIGHT)
    @@ ("alarm" :> TRIGGERED)
    @@ ("emergency" :> TRIGGERED)
    @@ ("fire" :> TRIGGERED)
    @@ ("medical" :> TRIGGERED)
    @@ ("partarm1" :> ARMED_CUSTOM_BYPASS)
    @@ ("partarm2" :> ARMED_CUSTOM_BYPASS)
    @@ ("partarm3" :> ARMED_CUSTOM_BYPASS)
    @@ ("partarm4" :> ARMED_CUSTOM_BYPASS)
    @@ ("stayarm1" :> ARMED_HOME)
    @@ ("stayarm2" :> ARMED_HOME)
    @@ ("stayarm3" :> ARMED_HOME)
    @@ ("stayarm4" :> ARMED_HOME)
    @@ ("entrydelay" :> PENDING)
    @@ ("customarm1" :> ARMED_CUSTOM_BYPASS)
    @@ ("customarm2" :> ARMED_CUSTOM_BYPASS)
    @@ ("customarm3" :> ARMED_CUSTOM_BYPASS)
    @@ ("customarm4" :> ARMED_CUSTOM_BYPASS)

NoData == [kind |-> "None"]

UpdateAlarmState_keep_out_of_range(p, d) ==
    IF d = NoData
    THEN [p EXCEPT !.alarm_state = DISARMED]
    ELSE LET areas == Get(d.device_state, "areas", <<>>) IN
         IF p.area_index < Len(areas)
         THEN LET area_state == areas[p.area_index + 1] IN
              [p EXCEPT !.area_state = area_state,
                        !.alarm_state = Get(STATE_MAP, area_state, DISARMED)]
         ELSE p

\* OlarmAlarmControlPanel._update_alarm_state, on panel p with coordinator
\* data d
UpdateAlarmState(p, d) ==
    IF d = NoData
    THEN [p EXCEPT !.alarm_state = DISARMED]
    ELSE LET areas == Get(d.device_state, "areas", <<>>) IN
         IF p.area_index < Len(areas)
         THEN LET area_state == areas[p.area_index + 1] IN
              [p EXCEPT !.area_state = area_state,
                        !.alarm_state = Get(STATE_MAP, area_state, DISARMED)]
         ELSE [p EXCEPT !.alarm_state = DISARMED]

\* OlarmAlarmControlPanel.extra_state_attributes
ExtraStateAttributes(p) ==
    IF p.alarm_state = ARMED_CUSTOM_BYPASS
    THEN [armed_custom_bypass_profile |-> p.area_state]
    ELSE [armed_custom_bypass_profile |-> "None"]

\* async_write_ha_state: the host records the entity's state and attributes;
\* ha_writes counts the writes the entity makes during one action
WriteHaState(p) ==
    [p EXCEPT !.ha_state = [state |-> p.alarm_state,
                            attributes |-> ExtraStateAttributes(p)],
              !.ha_writes = @ + 1]

\* An entity at the start of an action: it has written nothing yet
Quiet(e) == [e EXCEPT !.ha_writes = 0]

\* OlarmAlarmControlPanel._handle_coordinator_update
PanelHandleCoordinatorUpdate(p, d) ==
    IF d = NoData
    THEN p
    ELSE LET q == UpdateAlarmState(p, d) IN
         IF q.alarm_state # p.alarm_state THEN WriteHaState(q) ELSE q

\* OlarmAlarmControlPanel.__init__
NewPanel(d, area_index, area_state) ==
    UpdateAlarmState([area_index |-> area_index,
                      area_state |-> area_state,
                      alarm_state |-> "None",
                      ha_state |-> [state |-> "None",
                                    attributes |-> [armed_custom_bypass_profile |-> "None"]],
                      ha_writes |-> 0],
                     d)

\* load_area_panels, followed by the host's first state write for every
\* entity that async_add_entities adds
LoadAreaPanels(d) ==
    LET areas == Get(d.device_state, "areas", <<>>) IN
    [i \in 1..Len(areas) |-> WriteHaState(NewPanel(d, i - 1, areas[i]))]

\* The attributes of OlarmDataUpdateCoordinator; _async_send_command looks
\* up coordinator.send_command among them
CoordinatorAttributes ==
    {"device_id", "data", "_async_update_data", "async_update_from_mqtt",
     "send_zone_bypass", "send_zone_unbypass",
     "send_pgm_open", "send_pgm_close", "send_pgm_pulse",
     "send_ukey_activate",
     "send_link_output_open", "send_link_output_close", "send_link_output_pulse",
     "send_link_relay_unlatch", "send_link_relay_latch", "send_link_relay_pulse",
     "send_max_output_open", "send_max_output_close", "send_max_output_pulse",
     "send_area_disarm", "send_area_arm", "send_area_stay", "send_area_sleep"}

\* OlarmAlarmControlPanel._async_send_command: the panel afterwards, the
\* calls made on the coordinator and the exception it ends with
AsyncSendCommand(p, device_id, command) ==
    IF "send_command" \notin CoordinatorAttributes
    THEN [panel |-> p, calls |-> <<>>, raised |-> "AttributeError"]
    ELSE [panel |-> WriteHaState([p EXCEPT !.alarm_state = PENDING]),
          calls |-> <<[method |-> "send_command",
                       command |-> command,
                       device_id |-> device_id,
                       num |-> p.area_index + 1]>>,
          raised |-> "None"]

\* async_alarm_disarm, async_alarm_arm_away, async_alarm_arm_home,
\* async_alarm_arm_night: the command string each passes on
PanelCommands ==
    ("alarm_disarm" :> "area_disarm")
    @@ ("alarm_arm_away" :> "area_arm")
    @@ ("alarm_arm_home" :> "area_stay")
    @@ ("alarm_arm_night" :> "area_sleep")

----------------------------------------------------------------------------
(* alarm_control_panel_old.py *)

OldAlarmState_sleep_as_home(area_state, current) ==
    IF area_state \in {"disarm", "notready"} THEN DISARMED
    ELSE IF area_state \in {"stay", "sleep"} THEN ARMED_HOME
    ELSE IF area_state = "arm" THEN ARMED_AWAY
    ELSE IF area_state \in {"alarm", "emergency", "fire", "medical"} THEN TRIGGERED
    ELSE current

\* The if/elif chain of the legacy __init__ and _handle_mqtt_update: the
\* alarm state for area_state; no branch matching leaves `current`
OldAlarmState(area_state, current) ==
    IF area_state \in {"disarm", "notready"} THEN DISARMED
    ELSE IF area_state = "stay" THEN ARMED_HOME
    ELSE IF area_state = "arm" THEN ARMED_AWAY
    ELSE IF area_state = "sleep" THEN ARMED_NIGHT
    ELSE IF area_state \in {"alarm", "emergency", "fire", "medical"} THEN TRIGGERED
    ELSE current

\* The legacy panel writes its state to the host; it has no extra attributes
OldWriteHaState(p) ==
    [p EXCEPT !.ha_state = [state |-> p.alarm_state], !.ha_writes = @ + 1]

\* The legacy OlarmAlarmControlPanel.__init__
OldNewPanel(area_index, area_state) ==
    [area_index |-> area_index,
     area_state |-> area_state,
     alarm_state |-> OldAlarmState(area_state, DISARMED),
     ha_state |-> [state |-> "None"],
     ha_writes |-> 0]

\* The legacy async_setup_entry for a coordinator that holds a profile and
\* device_state, followed by the host's first state write for every entity
\* added; enumerate(device_state.get("areas")) raises without an areas list
OldAsyncSetupEntry(device_state) ==
    IF ~Has(device_state, "areas")
    THEN [raised |-> "TypeError", panels |-> <<>>]
    ELSE [raised |-> "None",
          panels |-> [i \in 1..Len(device_state.areas) |->
                        OldWriteHaState(OldNewPanel(i - 1, device_state.areas[i]))]]

\* The legacy _handle_mqtt_update(device_id, device_state, ...) of a panel of
\* device self_device_id; `update` holds deviceState unless device_state is
\* None
OldHandleMqttUpdate(p, self_device_id, device_id, update) ==
    IF device_id # self_device_id \/ ~Has(update, "deviceState")
    THEN p
    ELSE IF Has(update.deviceState, "areas")
            /\ p.area_index < Len(update.deviceState.areas)
         THEN LET area_state == update.deviceState.areas[p.area_index + 1] IN
              OldWriteHaState([p EXCEPT
                                 !.area_state = area_state,
                                 !.alarm_state = OldAlarmState(area_state, @)])
         ELSE p

\* The command string each legacy service passes to send_device_area_cmd
OldAreaCmd ==
    ("alarm_disarm" :> "disarm")
    @@ ("alarm_arm_away" :> "arm")
    @@ ("alarm_arm_home" :> "stay")
    @@ ("alarm_arm_night" :> "sleep")

\* The legacy async_alarm_disarm, _arm_away, _arm_home and _arm_night: the
\* call on the legacy coordinator, which returns or raises `outcome`, and
\* the panel afterwards
OldAsyncAlarm(p, device_id, service, outcome) ==
    [calls |-> <<[method |-> "send_device_area_cmd",
                  device_id |-> device_id,
                  command |-> OldAreaCmd[service],
                  num |-> p.area_index,
                  raised |-> outcome]>>,
     panel |-> IF outcome = "None"
               THEN OldWriteHaState([p EXCEPT !.alarm_state = PENDING])
               ELSE p]

----------------------------------------------------------------------------
(* coordinator.py *)

update_interval_periodic == "30s"

\* the update_interval handed to DataUpdateCoordinator.__init__
update_interval == "None"

\* `device.get(k) or {}`
GetOrEmptyDict(device, k) == IF Has(device, k) THEN device[k] ELSE EmptyDict

\* OlarmDeviceData as built by _async_update_data from the API's device dict
OlarmDeviceData(device) ==
    [kind |-> "OlarmDeviceData",
     device_name |-> IF Has(device, "deviceName") /\ device.deviceName # ""
                     THEN device.deviceName ELSE "Olarm Device",
     device_state |-> GetOrEmptyDict(device, "deviceState"),
     device_links |-> GetOrEmptyDict(device, "deviceLinks"),
     device_io |-> GetOrEmptyDict(device, "deviceIO"),
     device_profile |-> GetOrEmptyDict(device, "deviceProfile"),
     device_profile_links |-> GetOrEmptyDict(device, "deviceProfileLinks"),
     device_profile_io |-> GetOrEmptyDict(device, "deviceProfileIO")]

AsyncUpdateData_empty_on_error(response) ==
    IF response.error
    THEN [raised |-> "None", value |-> OlarmDeviceData(EmptyDict)]
    ELSE [raised |-> "None", value |-> OlarmDeviceData(response.device)]

\* OlarmDataUpdateCoordinator._async_update_data; response is what
\* get_device does: it raises OlarmFlowClientApiError or returns a device
AsyncUpdateData(response) ==
    IF response.error
    THEN [raised |-> "UpdateFailed", value |-> NoData]
    ELSE [raised |-> "None", value |-> OlarmDeviceData(response.device)]

MqttKeys == {"deviceState", "deviceLinks", "deviceIO"}

AsyncUpdateFromMqtt_merge(d, payload) ==
    IF d = NoData
    THEN [data |-> d, updated |-> 0]
    ELSE [data |-> [d EXCEPT
                     !.device_state = IF Has(payload, "deviceState")
                                      THEN payload.deviceState @@ @ ELSE @,
                     !.device_links = IF Has(payload, "deviceLinks")
                                      THEN payload.deviceLinks ELSE @,
                     !.device_io = IF Has(payload, "deviceIO")
                                   THEN payload.deviceIO ELSE @],
          updated |-> IF DOMAIN payload \cap MqttKeys # {} THEN 1 ELSE 0]

AsyncUpdateFromMqtt_state_clears_links(d, payload) ==
    IF d = NoData
    THEN [data |-> d, updated |-> 0]
    ELSE [data |-> [d EXCEPT
                     !.device_state = IF Has(payload, "deviceState")
                                      THEN payload.deviceState ELSE @,
                     !.device_links = IF Has(payload, "deviceLinks")
                                      THEN payload.deviceLinks
                                      ELSE IF Has(payload, "deviceState")
                                           THEN EmptyDict ELSE @,
                     !.device_io = IF Has(payload, "deviceIO")
                                   THEN payload.deviceIO ELSE @],
          updated |-> IF DOMAIN payload \cap MqttKeys # {} THEN 1 ELSE 0]

AsyncUpdateFromMqtt_publish_per_key(d, payload) ==
    IF d = NoData
    THEN [data |-> d, updated |-> 0]
    ELSE [data |-> [d EXCEPT
                     !.device_state = IF Has(payload, "deviceState")
                                      THEN payload.deviceState ELSE @,
                     !.device_links = IF Has(payload, "deviceLinks")
                                      THEN payload.deviceLinks ELSE @,
                     !.device_io = IF Has(payload, "deviceIO")
                                   THEN payload.deviceIO ELSE @],
          updated |-> Cardinality(DOMAIN payload \cap MqttKeys)]

AsyncUpdateFromMqtt_publish_without_data(d, payload) ==
    IF d = NoData
    THEN [data |-> d,
          updated |-> IF DOMAIN payload \cap MqttKeys # {} THEN 1 ELSE 0]
    ELSE [data |-> [d EXCEPT
                     !.device_state = IF Has(payload, "deviceState")
                                      THEN payload.deviceState ELSE @,
                     !.device_links = IF Has(payload, "deviceLinks")
                                      THEN payload.deviceLinks ELSE @,
                     !.device_io = IF Has(payload, "deviceIO")
                                   THEN payload.deviceIO ELSE @],
          updated |-> IF DOMAIN payload \cap MqttKeys # {} THEN 1 ELSE 0]

\* OlarmDataUpdateCoordinator.async_update_from_mqtt: the cached data
\* afterwards and the number of async_set_updated_data calls it makes
AsyncUpdateFromMqtt(d, payload) ==
    IF d = NoData
    THEN [data |-> d, updated |-> 0]
    ELSE [data |-> [d EXCEPT
                     !.device_state = IF Has(payload, "deviceState")
                                      THEN payload.deviceState ELSE @,
                     !.device_links = IF Has(payload, "deviceLinks")
                                      THEN payload.deviceLinks ELSE @,
                     !.device_io = IF Has(payload, "deviceIO")
                                   THEN payload.deviceIO ELSE @],
          updated |-> IF DOMAIN payload \cap MqttKeys # {} THEN 1 ELSE 0]

\* The client method each coordinator command method delegates to
ClientMethod ==
    ("send_zone_bypass" :> "send_device_zone_bypass")
    @@ ("send_zone_unbypass" :> "send_device_zone_unbypass")
    @@ ("send_pgm_open" :> "send_device_pgm_open")
    @@ ("send_pgm_close" :> "send_device_pgm_close")
    @@ ("send_pgm_pulse" :> "send_device_pgm_pulse")
    @@ ("send_ukey_activate" :> "send_device_ukey_activate")
    @@ ("send_link_output_open" :> "send_device_link_output_open")
    @@ ("send_link_output_close" :> "send_device_link_output_close")
    @@ ("send_link_output_pulse" :> "send_device_link_output_pulse")
    @@ ("send_link_relay_unlatch" :> "send_device_link_relay_unlatch")
    @@ ("send_link_relay_latch" :> "send_device_link_relay_latch")
    @@ ("send_link_relay_pulse" :> "send_device_link_relay_pulse")
    @@ ("send_max_output_open" :> "send_device_max_output_open")
    @@ ("send_max_output_close" :> "send_device_max_output_close")
    @@ ("send_max_output_pulse" :> "send_device_max_output_pulse")
    @@ ("send_area_disarm" :> "send_device_area_disarm")
    @@ ("send_area_arm" :> "send_device_area_arm")
    @@ ("send_area_stay" :> "send_device_area_stay")
    @@ ("send_area_sleep" :> "send_device_area_sleep")

\* coordinator.send_<x>(device_id, num): one client call with the same
\* arguments
CoordinatorSend(method, device_id, num) ==
    <<[method |-> ClientMethod[method], device_id |-> device_id, num |-> num]>>

\* coordinator.send_link_<x>(device_id, link_id, num)
CoordinatorSendLink(method, device_id, link_id, num) ==
    <<[method |-> ClientMethod[method], device_id |-> device_id,
       link_id |-> link_id, num |-> num]>>

\* The fields the OlarmDeviceData dataclass declares
OlarmDeviceDataFields ==
    {"device_name", "device_state", "device_links", "device_io",
     "device_profile", "device_profile_links", "device_profile_io"}

\* Reading coordinator.data.<name>: the exception it ends with
ReadDataAttribute(name) ==
    IF name \in OlarmDeviceDataFields THEN "None" ELSE "AttributeError"

----------------------------------------------------------------------------
(* binary_sensor.py *)

\* list[index] == v, which raises IndexError past the end of the list
ItemEquals(list, index, v) ==
    IF index < Len(list)
    THEN [raised |-> "None", value |-> list[index + 1] = v]
    ELSE [raised |-> "IndexError", value |-> FALSE]

FenceKeys ==
    {"ac_power_fence", "fence_zone_off", "fence_zone_alarm",
     "fence_zone_voltbad", "fence_gate_alarmopen"}

\* SENSOR_DESCRIPTIONS[key].value_fn(coord, index, link_id)
ValueFn(key, d, index, link_id) ==
    IF d = NoData
    THEN [raised |-> "None", value |-> FALSE]
    ELSE CASE key = "zone" ->
                ItemEquals(Get(d.device_state, "zones", <<>>), index, "a")
           [] key = "zone_bypass" ->
                ItemEquals(Get(d.device_state, "zones", <<>>), index, "b")
           [] key = "ac_power" ->
                [raised |-> "None",
                 value |-> Get(d.device_state, "powerAC", "None") = "ok"]
           [] key = "link_input" ->
                IF link_id = "None" THEN [raised |-> "None", value |-> FALSE]
                ELSE ItemEquals(Get(Get(d.device_links, link_id, EmptyDict),
                                    "inputs", <<>>), index, "high")
           [] key = "link_output" ->
                IF link_id = "None" THEN [raised |-> "None", value |-> FALSE]
                ELSE ItemEquals(Get(Get(d.device_links, link_id, EmptyDict),
                                    "outputs", <<>>), index, "closed")
           [] key = "relay_output" ->
                IF link_id = "None" THEN [raised |-> "None", value |-> FALSE]
                ELSE ItemEquals(Get(Get(d.device_links, link_id, EmptyDict),
                                    "relays", <<>>), index, "latched")
           [] key = "max_input" ->
                ItemEquals(Get(d.device_io, "inputs", <<>>), index, "high")
           [] key = "max_output" ->
                ItemEquals(Get(d.device_io, "outputs", <<>>), index, "closed")
           [] key \in FenceKeys ->
                \* every fence description reads coord.data.device_fence first
                IF ReadDataAttribute("device_fence") # "None"
                THEN [raised |-> ReadDataAttribute("device_fence"), value |-> FALSE]
                ELSE CASE key = "ac_power_fence" ->
                            [raised |-> "None",
                             value |-> Get(d.device_fence, "powerAC", "None") = "ok"]
                       [] key = "fence_gate_alarmopen" ->
                            LET gates == Get(d.device_fence, "gates", <<>>) IN
                            IF index < Len(gates)
                            THEN [raised |-> "None",
                                  value |-> Get(gates[index + 1], "alarmOrOpen", "None") = 1]
                            ELSE [raised |-> "IndexError", value |-> FALSE]
                       [] OTHER ->
                            LET zones == Get(d.device_fence, "zones", <<>>)
                                field == CASE key = "fence_zone_off" -> "off"
                                           [] key = "fence_zone_alarm" -> "alarm"
                                           [] OTHER -> "voltBad"
                                want == IF key = "fence_zone_off" THEN 0 ELSE 1
                            IN IF index < Len(zones)
                               THEN [raised |-> "None",
                                     value |-> Get(zones[index + 1], field, "None") = want]
                               ELSE [raised |-> "IndexError", value |-> FALSE]

OnOff(b) == IF b THEN "on" ELSE "off"

\* OlarmBinarySensor.__init__: the sensor, and the exception value_fn ends
\* with
NewSensor(d, key, index, state, link_id) ==
    LET v == ValueFn(key, d, index, link_id) IN
    [raised |-> v.raised,
     sensor |-> [key |-> key, sensor_index |-> index, sensor_state |-> state,
                 link_id |-> link_id, is_on |-> v.value, ha_state |-> "None",
                 ha_writes |-> 0]]

\* OlarmBinarySensor._handle_coordinator_update
SensorHandleCoordinatorUpdate(s, d) ==
    IF d = NoData
    THEN [raised |-> "None", sensor |-> s]
    ELSE LET v == ValueFn(s.key, d, s.sensor_index, s.link_id) IN
         IF v.raised # "None"
         THEN [raised |-> v.raised, sensor |-> s]
         ELSE LET s1 == [s EXCEPT !.is_on = v.value]
                  s2 == IF s.key \in {"zone", "zone_bypass"}
                        THEN [s1 EXCEPT !.sensor_state =
                                 Get(d.device_state, "zones", <<>>)[s.sensor_index + 1]]
                        ELSE s1
              IN [raised |-> "None",
                  sensor |-> IF s2.is_on # s.is_on
                             THEN [s2 EXCEPT !.ha_state = OnOff(s2.is_on),
                                             !.ha_writes = @ + 1]
                             ELSE s2]

\* load_zone_sensors
LoadZoneSensors(d) ==
    LET zones == Get(d.device_state, "zones", <<>>) IN
    {NewSensor(d, key, i - 1, zones[i], "None").sensor :
        i \in 1..Len(zones), key \in {"zone", "zone_bypass"}}

\* load_ac_power_sensor
LoadAcPowerSensor(d) ==
    IF Has(d.device_state, "powerAC")
    THEN [raised |-> "None",
          sensors |-> {NewSensor(d, "ac_power", 0,
                                 OnOff(d.device_state.powerAC = "ok"), "None").sensor}]
    ELSE IF ReadDataAttribute("device_fence") # "None"
    THEN [raised |-> ReadDataAttribute("device_fence"), sensors |-> {}]
    ELSE IF Has(d.device_fence, "powerAC")
    THEN [raised |-> "None",
          sensors |-> {NewSensor(d, "ac_power_fence", 0,
                                 OnOff(d.device_fence.powerAC = "ok"), "None").sensor}]
    ELSE [raised |-> "None", sensors |-> {}]

\* d[outer][inner][index]: KeyError or IndexError (both LookupError) when
\* a key or the element is missing
Lookup2(dict, outer, inner, index) ==
    IF Has(dict, outer) /\ Has(dict[outer], inner)
       /\ index < Len(dict[outer][inner])
    THEN "None" ELSE "LookupError"

Lookup1(dict, inner, index) ==
    IF Has(dict, inner) /\ index < Len(dict[inner])
    THEN "None" ELSE "LookupError"

\* The (key, link_id, index, list) of the sensors load_link_sensors builds
LinkSensorItems(d) ==
    UNION {
        LET link_data == d.device_profile_links[link_id]
            io_items == Get(link_data, "io", <<>>)
            relay_items == Get(link_data, "relays", <<>>)
        IN {<<"link_input", link_id, i - 1, "inputs">> :
                i \in {j \in 1..Len(io_items) :
                         /\ Get(io_items[j], "enabled", FALSE)
                         /\ Get(io_items[j], "type", "None") = "input"}}
           \cup
           {<<"link_output", link_id, i - 1, "outputs">> :
                i \in {j \in 1..Len(io_items) :
                         /\ Get(io_items[j], "enabled", FALSE)
                         /\ Get(io_items[j], "type", "None") = "output"
                         /\ Get(io_items[j], "outputMode", "None") = "latch"}}
           \cup
           {<<"relay_output", link_id, i - 1, "relays">> :
                i \in {j \in 1..Len(relay_items) :
                         /\ Get(relay_items[j], "enabled", FALSE)
                         /\ Get(relay_items[j], "relayMode", "None") = "latch"}}
        : link_id \in DOMAIN d.device_profile_links}

\* load_link_sensors
LoadLinkSensors(d) ==
    IF d.device_profile_links = EmptyDict
    THEN [raised |-> "None", sensors |-> {}]
    ELSE LET items == LinkSensorItems(d)
             bad == {it \in items :
                       Lookup2(d.device_links, it[2], it[4], it[3]) # "None"}
         IN IF bad # {}
            THEN [raised |-> "LookupError", sensors |-> {}]
            ELSE [raised |-> "None",
                  sensors |-> {NewSensor(d, it[1], it[3],
                                         d.device_links[it[2]][it[4]][it[3] + 1],
                                         it[2]).sensor : it \in items}]

\* The (key, index, list) of the sensors load_max_sensors builds
MaxSensorItems(d) ==
    LET io_items == Get(d.device_profile_io, "io", <<>>) IN
    {<<"max_input", i - 1, "inputs">> :
        i \in {j \in 1..Len(io_items) :
                 /\ Get(io_items[j], "enabled", FALSE)
                 /\ Get(io_items[j], "type", "None") = "input"}}
    \cup
    {<<"max_output", i - 1, "outputs">> :
        i \in {j \in 1..Len(io_items) :
                 /\ Get(io_items[j], "enabled", FALSE)
                 /\ Get(io_items[j], "type", "None") = "output"
                 /\ Get(io_items[j], "outputMode", "None") = "latch"}}

\* load_max_sensors
LoadMaxSensors(d) ==
    IF ~Has(d.device_profile_io, "io")
    THEN [raised |-> "None", sensors |-> {}]
    ELSE LET items == MaxSensorItems(d)
             bad == {it \in items : Lookup1(d.device_io, it[3], it[2]) # "None"}
         IN IF bad # {}
            THEN [raised |-> "LookupError", sensors |-> {}]
            ELSE [raised |-> "None",
                  sensors |-> {NewSensor(d, it[1], it[2],
                                         d.device_io[it[3]][it[2] + 1],
                                         "None").sensor : it \in items}]

\* load_fence_sensors: its first statement reads coordinator.data.device_fence
LoadFenceSensors(d) ==
    IF ReadDataAttribute("device_fence") # "None"
    THEN [raised |-> ReadDataAttribute("device_fence"), sensors |-> {}]
    ELSE LET fence_zones == Get(d.device_fence, "zones", <<>>)
             fence_gates == Get(d.device_fence, "gates", <<>>)
         IN [raised |-> "None",
             sensors |->
                {NewSensor(d, "fence_zone_off", i - 1,
                           Get(fence_zones[i], "off", 1), "None").sensor :
                    i \in 1..Len(fence_zones)}
                \cup
                {NewSensor(d, "fence_zone_alarm", i - 1,
                           Get(fence_zones[i], "alarm", 0), "None").sensor :
                    i \in 1..Len(fence_zones)}
                \cup
                {NewSensor(d, "fence_zone_voltbad", i - 1,
                           Get(fence_zones[i], "voltBad", 0), "None").sensor :
                    i \in 1..Len(fence_zones)}
                \cup
                {NewSensor(d, "fence_gate_alarmopen", i - 1,
                           Get(fence_gates[i], "alarmOrOpen", 0), "None").sensor :
                    i \in 1..Len(fence_gates)}]

\* binary_sensor.async_setup_entry: the loaders run in order and the first
\* exception ends the setup before async_add_entities(sensors); `sensors`
\* are the sensors of the loaders that completed, `added` tells whether
\* async_add_entities was reached
BinarySensorSetup(d) ==
    LET zone == LoadZoneSensors(d)
        ac == LoadAcPowerSensor(d)
        link == LoadLinkSensors(d)
        max == LoadMaxSensors(d)
        fence == LoadFenceSensors(d)
    IN IF ac.raised # "None"
       THEN [raised |-> ac.raised, added |-> FALSE, sensors |-> zone]
       ELSE IF link.raised # "None"
       THEN [raised |-> link.raised, added |-> FALSE,
             sensors |-> zone \cup ac.sensors]
       ELSE IF max.raised # "None"
       THEN [raised |-> max.raised, added |-> FALSE,
             sensors |-> zone \cup ac.sensors \cup link.sensors]
       ELSE IF fence.raised # "None"
       THEN [raised |-> fence.raised, added |-> FALSE,
             sensors |-> zone \cup ac.sensors \cup link.sensors \cup max.sensors]
       ELSE [raised |-> "None", added |-> TRUE,
             sensors |-> {[s EXCEPT !.ha_state = OnOff(s.is_on), !.ha_writes = @ + 1] :
                            s \in zone \cup ac.sensors \cup link.sensors
                                  \cup max.sensors \cup fence.sensors}]

----------------------------------------------------------------------------
(* button.py *)

\* BUTTON_DESCRIPTIONS[key].press_fn: the coordinator method it calls
ButtonMethod ==
    ("zone_bypass" :> "send_zone_bypass")
    @@ ("zone_unbypass" :> "send_zone_unbypass")
    @@ ("pgm_open" :> "send_pgm_open")
    @@ ("pgm_close" :> "send_pgm_close")
    @@ ("pgm_pulse" :> "send_pgm_pulse")
    @@ ("ukey" :> "send_ukey_activate")
    @@ ("link_output_open" :> "send_link_output_open")
    @@ ("link_output_close" :> "send_link_output_close")
    @@ ("link_output_pulse" :> "send_link_output_pulse")
    @@ ("link_relay_unlatch" :> "send_link_relay_unlatch")
    @@ ("link_relay_latch" :> "send_link_relay_latch")
    @@ ("link_relay_pulse" :> "send_link_relay_pulse")
    @@ ("max_output_open" :> "send_max_output_open")
    @@ ("max_output_close" :> "send_max_output_close")
    @@ ("max_output_pulse" :> "send_max_output_pulse")

LinkButtonKeys ==
    {"link_output_open", "link_output_close", "link_output_pulse",
     "link_relay_unlatch", "link_relay_latch", "link_relay_pulse"}

AsyncPress_one_based(b, device_id) ==
    IF b.key \in LinkButtonKeys
    THEN CoordinatorSendLink(ButtonMethod[b.key], device_id, b.link_id,
                             b.button_index + 1)
    ELSE CoordinatorSend(ButtonMethod[b.key], device_id, b.button_index + 1)

\* OlarmButton.async_press: press_fn(coordinator, device_id, button_index,
\* link_id) of the button's description; the client calls it makes
AsyncPress(b, device_id) ==
    IF b.key \in LinkButtonKeys
    THEN CoordinatorSendLink(ButtonMethod[b.key], device_id, b.link_id,
                             b.button_index)
    ELSE CoordinatorSend(ButtonMethod[b.key], device_id, b.button_index)

\* OlarmButton.__init__
NewButton(key, index, link_id) ==
    [key |-> key, button_index |-> index, link_id |-> link_id]

\* load_zone_buttons
LoadZoneButtons(e, d) ==
    IF ~Get(e, "load_zones_bypass_entities", FALSE)
    THEN {}
    ELSE {NewButton(key, i - 1, "None") :
            i \in 1..Len(Get(d.device_state, "zones", <<>>)),
            key \in {"zone_bypass", "zone_unbypass"}}

LoadPgmButtons_ignore_enabled(d) ==
    LET pgm_controls == Get(d.device_profile, "pgmControl", <<>>)
        ukeys_controls == Get(d.device_profile, "ukeysControl", <<>>)
        enabled == 1..Len(pgm_controls)
    IN {NewButton(key, i - 1, "None") :
            i \in {j \in enabled : pgm_controls[j][2] = "1"},
            key \in {"pgm_open", "pgm_close"}}
       \cup
       {NewButton("pgm_pulse", i - 1, "None") :
            i \in {j \in enabled : pgm_controls[j][3] = "1"}}
       \cup
       {NewButton("ukey", i - 1, "None") :
            i \in {j \in 1..Len(ukeys_controls) : ukeys_controls[j] = 1}}

\* load_pgm_buttons; a pgmControl entry such as "110" is the sequence of
\* its characters
LoadPgmButtons(d) ==
    LET pgm_controls == Get(d.device_profile, "pgmControl", <<>>)
        ukeys_controls == Get(d.device_profile, "ukeysControl", <<>>)
        enabled == {i \in 1..Len(pgm_controls) : pgm_controls[i][1] = "1"}
    IN {NewButton(key, i - 1, "None") :
            i \in {j \in enabled : pgm_controls[j][2] = "1"},
            key \in {"pgm_open", "pgm_close"}}
       \cup
       {NewButton("pgm_pulse", i - 1, "None") :
            i \in {j \in enabled : pgm_controls[j][3] = "1"}}
       \cup
       {NewButton("ukey", i - 1, "None") :
            i \in {j \in 1..Len(ukeys_controls) : ukeys_controls[j] = 1}}

\* load_link_output_buttons
LoadLinkOutputButtons(d) ==
    UNION {
        LET io_outputs == Get(d.device_profile_links[link_id], "io", <<>>)
            outputs == {i \in 1..Len(io_outputs) :
                          /\ Get(io_outputs[i], "enabled", FALSE)
                          /\ Get(io_outputs[i], "type", "None") = "output"}
        IN {NewButton(key, i - 1, link_id) :
                i \in {j \in outputs :
                         Get(io_outputs[j], "outputMode", "None") = "latch"},
                key \in {"link_output_open", "link_output_close"}}
           \cup
           {NewButton("link_output_pulse", i - 1, link_id) :
                i \in {j \in outputs :
                         Get(io_outputs[j], "outputMode", "None") = "pulse"}}
        : link_id \in DOMAIN d.device_profile_links}

\* load_link_relay_buttons
LoadLinkRelayButtons(d) ==
    UNION {
        LET relay_items == Get(d.device_profile_links[link_id], "relays", <<>>)
            relays == {i \in 1..Len(relay_items) :
                         Get(relay_items[i], "enabled", FALSE)}
        IN {NewButton(key, i - 1, link_id) :
                i \in {j \in relays :
                         Get(relay_items[j], "relayMode", "None") = "latch"},
                key \in {"link_relay_unlatch", "link_relay_latch"}}
           \cup
           {NewButton("link_relay_pulse", i - 1, link_id) :
                i \in {j \in relays :
                         Get(relay_items[j], "relayMode", "None") = "pulse"}}
        : link_id \in DOMAIN d.device_profile_links}

\* load_max_output_buttons
LoadMaxOutputButtons(d) ==
    LET io_items == Get(d.device_profile_io, "io", <<>>)
        outputs == {i \in 1..Len(io_items) :
                      /\ Get(io_items[i], "enabled", FALSE)
                      /\ Get(io_items[i], "type", "None") = "output"}
    IN {NewButton(key, i - 1, "None") :
            i \in {j \in outputs : Get(io_items[j], "outputMode", "None") = "latch"},
            key \in {"max_output_open", "max_output_close"}}
       \cup
       {NewButton("max_output_pulse", i - 1, "None") :
            i \in {j \in outputs : Get(io_items[j], "outputMode", "None") = "pulse"}}

\* button.async_setup_entry
ButtonSetup(e, d) ==
    LoadZoneButtons(e, d) \cup LoadPgmButtons(d) \cup LoadLinkOutputButtons(d)
    \cup LoadLinkRelayButtons(d) \cup LoadMaxOutputButtons(d)

----------------------------------------------------------------------------
(* config_flow.py *)

\* None, for _oauth_data, _devices and user_input
NoOauth == [kind |-> "None"]
NoDevices == [kind |-> "None"]
NoInput == [kind |-> "None"]

\* A new OlarmOauth2FlowHandler: the class defaults, with the flow's context
NewFlowHandler(source, entry_id) ==
    [source |-> source,
     entry_id |-> entry_id,
     oauth_data |-> NoOauth,
     user_id |-> "None",
     devices |-> NoDevices,
     device_id |-> "None",
     unique_id |-> "None"]

\* The results a step returns
AsyncAbort(reason) == [type |-> "abort", reason |-> reason]

AsyncShowForm(step_id, errors, options) ==
    [type |-> "form", step_id |-> step_id, errors |-> errors, options |-> options]

AsyncCreateEntry(entry_data) ==
    [type |-> "create_entry", title |-> "Olarm Integration", data |-> entry_data]

\* super().async_step_user: the external OAuth step starts
AsyncExternalStep == [type |-> "external", step_id |-> "auth"]

\* What a step leaves behind: the handler, the host's entries, the result
\* and the entry that was reloaded, if any
StepReturn(h, entries, result, reloaded) ==
    [h |-> h, entries |-> entries, result |-> result, reloaded |-> reloaded]

\* The entry_id the host gives the entry it creates for a unique id
EntryIdFor == ("dev1" :> "e1") @@ ("dev2" :> "e2")

\* async_step_user
AsyncStepUser(h, entries) == StepReturn(h, entries, AsyncExternalStep, "None")

AsyncStepDevice_ignores_configured(h, entries, user_input) ==
    IF user_input # NoInput
    THEN LET h1 == [h EXCEPT !.device_id = user_input.select_device] IN
         IF h1.oauth_data = NoOauth
         THEN StepReturn(h1, entries, AsyncAbort("oauth_data_missing"), "None")
         ELSE LET entry_data ==
                      ("user_id" :> h1.user_id)
                      @@ ("device_id" :> h1.device_id)
                      @@ ("auth_implementation" :> h1.oauth_data.auth_implementation)
                      @@ ("token" :> h1.oauth_data.token)
                  h2 == [h1 EXCEPT !.unique_id = h1.device_id]
              IN StepReturn(h2,
                            entries \cup {[entry_id |-> EntryIdFor[h2.unique_id],
                                           unique_id |-> h2.unique_id,
                                           data |-> entry_data]},
                            AsyncCreateEntry(entry_data), "None")
    ELSE IF h.devices = NoDevices
    THEN StepReturn(h, entries, AsyncAbort("no_devices_found"), "None")
    ELSE StepReturn(h, entries,
                    AsyncShowForm("device", EmptyDict,
                                  {h.devices.items[i].deviceId :
                                      i \in DOMAIN h.devices.items}),
                    "None")

\* async_step_device, with the entry the host creates for a create_entry
\* result; _abort_if_unique_id_configured aborts with already_configured when
\* an entry with the flow's unique id exists; the form's options are the
\* keys of device_options
AsyncStepDevice(h, entries, user_input) ==
    IF user_input # NoInput
    THEN LET h1 == [h EXCEPT !.device_id = user_input.select_device] IN
         IF h1.oauth_data = NoOauth
         THEN StepReturn(h1, entries, AsyncAbort("oauth_data_missing"), "None")
         ELSE LET entry_data ==
                      ("user_id" :> h1.user_id)
                      @@ ("device_id" :> h1.device_id)
                      @@ ("auth_implementation" :> h1.oauth_data.auth_implementation)
                      @@ ("token" :> h1.oauth_data.token)
                  h2 == [h1 EXCEPT !.unique_id = h1.device_id]
              IN IF \E e \in entries : e.unique_id = h2.unique_id
                 THEN StepReturn(h2, entries, AsyncAbort("already_configured"),
                                 "None")
                 ELSE StepReturn(h2,
                                 entries \cup {[entry_id |-> EntryIdFor[h2.unique_id],
                                                unique_id |-> h2.unique_id,
                                                data |-> entry_data]},
                                 AsyncCreateEntry(entry_data), "None")
    ELSE IF h.devices = NoDevices
    THEN StepReturn(h, entries, AsyncAbort("no_devices_found"), "None")
    ELSE StepReturn(h, entries,
                    AsyncShowForm("device", EmptyDict,
                                  {h.devices.items[i].deviceId :
                                      i \in DOMAIN h.devices.items}),
                    "None")

\* async_step_reauth, which is async_step_reauth_confirm without input
AsyncStepReauth(h, entries) ==
    StepReturn(h, entries, AsyncShowForm("reauth_confirm", EmptyDict, {}), "None")

\* async_step_reauth_confirm
AsyncStepReauthConfirm(h, entries, user_input) ==
    IF user_input = NoInput
    THEN StepReturn(h, entries, AsyncShowForm("reauth_confirm", EmptyDict, {}),
                    "None")
    ELSE StepReturn(h, entries, AsyncExternalStep, "None")

AsyncStepReauthComplete_replaces_data(h, entries) ==
    IF h.oauth_data = NoOauth
    THEN StepReturn(h, entries, AsyncAbort("oauth_data_missing"), "None")
    ELSE IF h.entry_id = "None"
    THEN StepReturn(h, entries, AsyncAbort("reauth_account_not_found"), "None")
    ELSE IF ~\E e \in entries : e.entry_id = h.entry_id
    THEN StepReturn(h, entries, AsyncAbort("reauth_account_not_found"), "None")
    ELSE LET existing_entry == CHOOSE e \in entries : e.entry_id = h.entry_id
             updated == [existing_entry EXCEPT !.data =
                            ("token" :> h.oauth_data.token)
                            @@ ("auth_implementation" :>
                                   h.oauth_data.auth_implementation)
                            @@ ("user_id" :> h.user_id)
                            @@ ("device_id" :> existing_entry.data.device_id)]
         IN StepReturn(h, (entries \ {existing_entry}) \cup {updated},
                       AsyncAbort("reauth_successful"), existing_entry.entry_id)

\* async_step_reauth_complete: async_update_entry with the merged data, then
\* async_reload of the entry
AsyncStepReauthComplete(h, entries) ==
    IF h.oauth_data = NoOauth
    THEN StepReturn(h, entries, AsyncAbort("oauth_data_missing"), "None")
    ELSE IF h.entry_id = "None"
    THEN StepReturn(h, entries, AsyncAbort("reauth_account_not_found"), "None")
    ELSE IF ~\E e \in entries : e.entry_id = h.entry_id
    THEN StepReturn(h, entries, AsyncAbort("reauth_account_not_found"), "None")
    ELSE LET existing_entry == CHOOSE e \in entries : e.entry_id = h.entry_id
             updated == [existing_entry EXCEPT !.data =
                            ("token" :> h.oauth_data.token)
                            @@ ("auth_implementation" :>
                                   h.oauth_data.auth_implementation)
                            @@ ("user_id" :> h.user_id)
                            @@ existing_entry.data]
         IN StepReturn(h, (entries \ {existing_entry}) \cup {updated},
                       AsyncAbort("reauth_successful"), existing_entry.entry_id)

AsyncOauthCreateEntry_device_step_always(h, entries, oauth, outcome) ==
    LET h1 == [h EXCEPT !.oauth_data = oauth] IN
    IF outcome.raised = "DevicesNotFound"
    THEN StepReturn(h1, entries, AsyncAbort("no_devices_found"), "None")
    ELSE IF outcome.raised = "OlarmFlowClientApiError"
    THEN StepReturn(h1, entries,
                    AsyncShowForm("user", [base |-> "invalid_auth"], {}), "None")
    ELSE LET h2 == [h1 EXCEPT
                      !.devices = IF Has(outcome.api_result, "data")
                                  THEN [kind |-> "list",
                                        items |-> outcome.api_result.data]
                                  ELSE NoDevices,
                      !.user_id = Get(outcome.api_result, "userId", "None")]
         IN AsyncStepDevice(h2, entries, NoInput)

\* async_oauth_create_entry(data); `outcome` is what get_devices raises or
\* returns
AsyncOauthCreateEntry(h, entries, oauth, outcome) ==
    LET h1 == [h EXCEPT !.oauth_data = oauth] IN
    IF outcome.raised = "DevicesNotFound"
    THEN StepReturn(h1, entries, AsyncAbort("no_devices_found"), "None")
    ELSE IF outcome.raised = "OlarmFlowClientApiError"
    THEN StepReturn(h1, entries,
                    AsyncShowForm("user", [base |-> "invalid_auth"], {}), "None")
    ELSE LET h2 == [h1 EXCEPT
                      !.devices = IF Has(outcome.api_result, "data")
                                  THEN [kind |-> "list",
                                        items |-> outcome.api_result.data]
                                  ELSE NoDevices,
                      !.user_id = Get(outcome.api_result, "userId", "None")]
         IN IF h2.source = "reauth"
            THEN AsyncStepReauthComplete(h2, entries)
            ELSE AsyncStepDevice(h2, entries, NoInput)

----------------------------------------------------------------------------
(* The inputs: what the API returns and what the MQTT broker sends *)

ZoneValues == {"a", "b", "c"}

\* lists of length n that hold v at position k (if any) and rest elsewhere
OneAt(n, k, v, rest) == [i \in 1..n |-> IF i = k THEN v ELSE rest]

\* areas lists of 0..MaxAreas entries, at most one area armed
AreaLists ==
    {OneAt(n, 0, "arm", "disarm") : n \in 0..MaxAreas}
    \cup {OneAt(MaxAreas, k, "arm", "disarm") : k \in 1..MaxAreas}

\* zones lists of 0..MaxZones entries, at most one zone active or bypassed
ZoneLists ==
    {OneAt(n, 0, "c", "c") : n \in 0..MaxZones}
    \cup {OneAt(MaxZones, k, v, "c") : k \in 1..MaxZones, v \in ZoneValues}

OutputIo(mode) == [enabled |-> TRUE, type |-> "output", outputMode |-> mode]
InputIo == [enabled |-> TRUE, type |-> "input"]
Relay(mode) == [enabled |-> TRUE, relayMode |-> mode]

\* a profile with one PGM that can be pulsed and nothing else
SmallProfile == [pgmControl |-> << <<"1", "0", "1">> >>]

\* a profile with PGMs, a utility key, a LINK module and a MAX IO board
DeviceProfile ==
    [pgmControl |-> << <<"1", "1", "0">>, <<"1", "0", "1">>, <<"0", "1", "1">> >>,
     ukeysControl |-> <<1, 0>>]

\* an output or relay the profile lists as not enabled
Disabled(item) == [item EXCEPT !.enabled = FALSE]

DeviceProfileLinks ==
    ("L1" :> [io |-> <<OutputIo("latch"), OutputIo("pulse"), InputIo,
                       OutputIo("toggle"), Disabled(OutputIo("latch"))>>,
              relays |-> <<Relay("latch"), Relay("pulse"),
                           Relay("toggle"), Disabled(Relay("pulse"))>>])

DeviceProfileIO ==
    [io |-> <<OutputIo("latch"), OutputIo("pulse"), InputIo,
              OutputIo("toggle"), Disabled(OutputIo("pulse"))>>]

LinksA ==
    ("L1" :> [inputs |-> <<"low", "low", "high">>,
              outputs |-> <<"closed", "open", "open">>,
              relays |-> <<"latched", "unlatched">>])

LinksB ==
    ("L1" :> [inputs |-> <<"low", "low", "low">>,
              outputs |-> <<"open", "open", "open">>,
              relays |-> <<"unlatched", "unlatched">>])

IOA == [inputs |-> <<"low", "low", "high">>, outputs |-> <<"closed", "open", "open">>]
IOB == [inputs |-> <<"low", "low", "low">>, outputs |-> <<"open", "open", "open">>]

FullState(a, z) == [areas |-> a, zones |-> z, powerAC |-> "ok"]

AllDisarmed == [i \in 1..MaxAreas |-> "disarm"]
AllClosed == [i \in 1..MaxZones |-> "c"]

\* deviceState dicts: complete ones and ones that carry some sub-fields only
DeviceStates ==
    {FullState(a, AllClosed) : a \in AreaLists}
    \cup {[areas |-> a] : a \in AreaLists}
    \cup {[zones |-> AllClosed], EmptyDict}

Device(ds, profile, profile_links, profile_io) ==
    [deviceName |-> "Home", deviceState |-> ds,
     deviceLinks |-> LinksA, deviceIO |-> IOA,
     deviceProfile |-> profile,
     deviceProfileLinks |-> profile_links,
     deviceProfileIO |-> profile_io]

\* a device the API describes by an empty name only
BareDevice == [deviceName |-> ""]

Devices ==
    {Device(FullState(a, AllClosed), SmallProfile, EmptyDict, EmptyDict) :
        a \in {OneAt(n, 0, "arm", "disarm") : n \in 0..MaxAreas}}
    \cup {Device(FullState(AllDisarmed, <<>>), SmallProfile, EmptyDict, EmptyDict),
          Device([areas |-> AllDisarmed], SmallProfile, EmptyDict, EmptyDict),
          BareDevice}

\* what get_device does: raise OlarmFlowClientApiError or return a device
Responses(devices) ==
    {[error |-> TRUE]} \cup {[error |-> FALSE, device |-> d] : d \in devices}

Payloads ==
    {("deviceState" :> ds) : ds \in DeviceStates}
    \cup {("deviceLinks" :> l) : l \in {LinksA, LinksB}}
    \cup {("deviceIO" :> io) : io \in {IOA, IOB}}
    \cup {("deviceState" :> EmptyDict) @@ ("deviceLinks" :> LinksB),
          ("deviceLinks" :> LinksA) @@ ("deviceIO" :> IOB),
          ("deviceState" :> [zones |-> AllClosed]) @@ ("deviceLinks" :> LinksA)
              @@ ("deviceIO" :> IOA),
          ("deviceTimestamp" :> "t"),
          EmptyDict}

Entries == {[device_id |-> "dev1"]}

\* Inputs that vary the zones: areas stay disarmed
ZoneDevices ==
    {Device(FullState(AllDisarmed, z), SmallProfile, EmptyDict, EmptyDict) :
        z \in {AllClosed, <<>>}}
    \cup {Device([areas |-> AllDisarmed, zones |-> AllClosed],
                 SmallProfile, EmptyDict, EmptyDict)}

ZonePayloads ==
    {("deviceState" :> FullState(AllDisarmed, z)) : z \in ZoneLists}
    \cup {("deviceState" :> [areas |-> AllDisarmed]),
          ("deviceLinks" :> LinksB),
          EmptyDict}

\* Inputs that take an area through every vendor state: the keys of
\* STATE_MAP and a value that is none of them
AreaStates ==
    {"disarm", "notready", "stay", "arm", "sleep", "alarm", "emergency",
     "fire", "medical", "partarm1", "partarm2", "partarm3", "partarm4",
     "stayarm1", "stayarm2", "stayarm3", "stayarm4", "entrydelay",
     "customarm1", "customarm2", "customarm3", "customarm4", "unknown"}

StateMapAreaLists ==
    {OneAt(MaxAreas, k, v, "disarm") : k \in 1..MaxAreas, v \in AreaStates}

StateMapDevices ==
    {Device(FullState(a, AllClosed), SmallProfile, EmptyDict, EmptyDict) :
        a \in {AllDisarmed, OneAt(MaxAreas, 1, "sleep", "disarm")}}

StateMapPayloads ==
    {("deviceState" :> [areas |-> a]) : a \in StateMapAreaLists}
    \cup {("deviceLinks" :> LinksB), EmptyDict}

\* Inputs with every kind of button
ButtonDevices ==
    {Device(FullState(AllDisarmed, AllClosed),
            DeviceProfile, DeviceProfileLinks, DeviceProfileIO)}

ButtonPayloads ==
    {("deviceState" :> [areas |-> AllDisarmed]),
     ("deviceLinks" :> LinksB),
     ("deviceIO" :> IOB),
     EmptyDict}

ButtonEntries ==
    {[device_id |-> "dev1"],
     [device_id |-> "dev1", load_zones_bypass_entities |-> TRUE]}

\* Inputs for the legacy panels next to the rewritten ones
LegacyAreaStates == {"arm", "sleep", "partarm1", "unknown"}

LegacyServices == {"alarm_disarm", "alarm_arm_night"}

LegacyDevices ==
    {Device(FullState(a, AllClosed), SmallProfile, EmptyDict, EmptyDict) :
        a \in {AllDisarmed, OneAt(MaxAreas, 1, "partarm1", "disarm")}}

LegacyPayloads ==
    {("deviceState" :> [areas |-> OneAt(MaxAreas, k, v, "disarm")]) :
        k \in 1..MaxAreas, v \in LegacyAreaStates}
    \cup {("deviceState" :> [areas |-> <<"arm">>]),
          ("deviceState" :> [zones |-> AllClosed]),
          ("deviceLinks" :> LinksB)}

\* Inputs of the config flow: the OAuth data, what get_devices returns or
\* raises, and the entries the host may hold when the first flow starts
OauthData ==
    {[auth_implementation |-> "olarm",
      token |-> [access_token |-> t, refresh_token |-> "r", expires_at |-> 1]] :
        t \in {"t1", "t2"}}

FlowDevice(id) == [deviceId |-> id, deviceName |-> "Home", deviceSerial |-> id]

ApiResults ==
    {("data" :> <<FlowDevice("dev1"), FlowDevice("dev2")>>) @@ ("userId" :> "u1"),
     ("data" :> <<FlowDevice("dev1")>>) @@ ("userId" :> "u2"),
     ("data" :> <<FlowDevice("dev2")>>),
     ("userId" :> "u1")}

GetDevicesOutcomes ==
    {[raised |-> "DevicesNotFound"], [raised |-> "OlarmFlowClientApiError"]}
    \cup {[raised |-> "None", api_result |-> r] : r \in ApiResults}

InstalledEntry ==
    [entry_id |-> "e1",
     unique_id |-> "dev1",
     data |-> ("user_id" :> "u0")
              @@ ("device_id" :> "dev1")
              @@ ("auth_implementation" :> "olarm")
              @@ ("token" :> [access_token |-> "t0", refresh_token |-> "r",
                              expires_at |-> 0])
              @@ ("load_zones_bypass_entities" :> TRUE)]

FlowContexts ==
    {[source |-> "user", entry_id |-> "None"]}
    \cup {[source |-> "reauth", entry_id |-> e] : e \in {"None", "e1", "e2"}}

----------------------------------------------------------------------------
(* The operations *)

\* no config flow in progress
NoFlow ==
    [at |-> "none", op |-> "none", h |-> NewFlowHandler("none", "None"),
     result |-> AsyncAbort("none"), reloaded |-> "None", before |-> {}]

InitProgram(entries) ==
    /\ entry \in entries
    /\ pc = "new"
    /\ data = NoData
    /\ setupRaised = EmptyDict
    /\ panels = <<>>
    /\ sensors = {}
    /\ sensorsAdded = FALSE
    /\ buttons = {}
    /\ getDeviceCalls = 0
    /\ apiCalls = <<>>
    /\ published = 0
    /\ raised = "None"
    /\ received = <<>>
    /\ dispatched = {}
    /\ oldPanels = <<>>
    /\ oldApiCalls = <<>>
    /\ lastOp = [op |-> "init"]

InitWith(entries) ==
    /\ InitProgram(entries)
    /\ flow = NoFlow
    /\ configEntries = {}

\* The entities at the start of an action
QuietPanels == [i \in DOMAIN panels |-> Quiet(panels[i])]

QuietSensors == {Quiet(s) : s \in sensors}

\* The unique ids of the entities: "<device_id>.area.<area_index>" and
\* "<device_id>[_<link_id>].<key>.<index>"
PanelId(p) == <<"area", p.area_index, "None">>

SensorId(s) == <<s.key, s.sensor_index, s.link_id>>

\* The first refresh at setup: one get_device call through
\* _async_update_data; the coordinator keeps what it returns
Fetch(response) ==
    /\ pc = "new"
    /\ LET r == AsyncUpdateData(response) IN
        /\ getDeviceCalls' = getDeviceCalls + 1
        /\ data' = IF r.raised = "None" THEN r.value ELSE data
        /\ pc' = IF r.raised = "None" THEN "ready" ELSE "failed"
        /\ raised' = r.raised
        /\ received' = IF r.raised = "None"
                       THEN <<r.value.device_state>> ELSE received
        /\ lastOp' = [op |-> "fetch", error |-> response.error,
                      returned |-> r.value]
    /\ apiCalls' = <<>>
    /\ published' = 0
    /\ panels' = QuietPanels
    /\ sensors' = QuietSensors
    /\ dispatched' = {}
    /\ UNCHANGED <<entry, setupRaised, sensorsAdded, buttons, oldPanels,
                   oldApiCalls, flow, configEntries>>

\* The refresh timer of the coordinator: with update_interval None no
\* refresh is ever scheduled
Tick(response) ==
    /\ pc # "new"
    /\ LET due == update_interval # "None"
           r == AsyncUpdateData(response)
       IN /\ getDeviceCalls' = getDeviceCalls + (IF due THEN 1 ELSE 0)
          /\ data' = IF due /\ r.raised = "None" THEN r.value ELSE data
          /\ raised' = IF due THEN r.raised ELSE "None"
          /\ received' = IF due /\ r.raised = "None"
                         THEN <<r.value.device_state>> ELSE received
    /\ lastOp' = [op |-> "tick"]
    /\ apiCalls' = <<>>
    /\ published' = 0
    /\ panels' = QuietPanels
    /\ sensors' = QuietSensors
    /\ dispatched' = {}
    /\ UNCHANGED <<entry, pc, setupRaised, sensorsAdded, buttons, oldPanels,
                   oldApiCalls, flow, configEntries>>

\* The host forwards the entry to the platforms: async_setup_entry of
\* alarm_control_panel, binary_sensor and button.  None of the three awaits
\* anything, and each reads coordinator.data only.
SetupPlatformsCore ==
    /\ pc = "ready"
    /\ pc' = "running"
    /\ panels' = LoadAreaPanels(data)
    /\ LET r == BinarySensorSetup(data) IN
        /\ sensors' = r.sensors
        /\ sensorsAdded' = r.added
        /\ setupRaised' = [alarm_control_panel |-> "None",
                           binary_sensor |-> r.raised,
                           button |-> "None"]
    /\ buttons' = ButtonSetup(entry, data)
    /\ raised' = "None"
    /\ lastOp' = [op |-> "setup"]
    /\ apiCalls' = <<>>
    /\ published' = 0
    /\ dispatched' = {}
    /\ UNCHANGED <<entry, data, getDeviceCalls, received>>

\* The platforms of this integration are set up; the legacy panels are not
\* loaded
SetupPlatforms ==
    SetupPlatformsCore /\ UNCHANGED <<oldPanels, oldApiCalls, flow, configEntries>>

\* The binary sensors the host holds: those handed to async_add_entities
AddedSensors == IF sensorsAdded THEN sensors ELSE {}

UpdatedListeners_affected(keys, ids) ==
    IF "deviceState" \in keys THEN ids ELSE {id \in ids : id[1] # "area"}

\* async_set_updated_data: of the registered listeners `ids`, those called
\* back for a payload holding `keys` -- every one, whatever the keys
UpdatedListeners(keys, ids) == ids

\* An MQTT payload arrives: async_update_from_mqtt, and for each
\* async_set_updated_data the listeners (the entities added to the host)
\* handle the update
MqttCore(payload) ==
    /\ LET r == AsyncUpdateFromMqtt(data, payload)
           registered == {PanelId(panels[i]) : i \in DOMAIN panels}
                         \cup {SensorId(x) : x \in AddedSensors}
           called == IF r.updated > 0
                     THEN UpdatedListeners(DOMAIN payload, registered) ELSE {}
           handled == {SensorHandleCoordinatorUpdate(s, r.data) :
                          s \in {x \in QuietSensors : SensorId(x) \in called}}
           errors == {h.raised : h \in handled} \ {"None"}
       IN /\ data' = r.data
          /\ published' = r.updated
          /\ panels' = [i \in DOMAIN panels |->
                          IF PanelId(panels[i]) \in called
                          THEN PanelHandleCoordinatorUpdate(QuietPanels[i], r.data)
                          ELSE QuietPanels[i]]
          /\ sensors' = {h.sensor : h \in handled}
                        \cup {x \in QuietSensors : SensorId(x) \notin called}
          /\ dispatched' = called
          /\ raised' = IF errors # {} THEN "IndexError" ELSE "None"
    /\ received' = IF Has(payload, "deviceState")
                   THEN <<payload.deviceState>> ELSE received
    /\ lastOp' = [op |-> "mqtt", keys |-> DOMAIN payload]
    /\ apiCalls' = <<>>
    /\ UNCHANGED <<entry, pc, setupRaised, sensorsAdded, buttons, getDeviceCalls>>

Mqtt(payload) ==
    MqttCore(payload) /\ UNCHANGED <<oldPanels, oldApiCalls, flow, configEntries>>

\* The user arms or disarms on panel i: async_alarm_disarm, _arm_away,
\* _arm_home or _arm_night
PanelCommandCore(i, service) ==
    /\ i \in DOMAIN panels
    /\ LET r == AsyncSendCommand(QuietPanels[i], entry.device_id,
                                 PanelCommands[service])
       IN /\ panels' = [QuietPanels EXCEPT ![i] = r.panel]
          /\ apiCalls' = r.calls
          /\ raised' = r.raised
    /\ lastOp' = [op |-> "command", panel |-> i, service |-> service]
    /\ published' = 0
    /\ sensors' = QuietSensors
    /\ dispatched' = {}
    /\ UNCHANGED <<entry, pc, data, setupRaised, sensorsAdded, buttons,
                   getDeviceCalls, received>>

PanelCommand(i, service) ==
    /\ PanelCommandCore(i, service)
    /\ UNCHANGED <<oldPanels, oldApiCalls, flow, configEntries>>

\* The user presses button b; the client call returns or raises
Press(b, outcome) ==
    /\ b \in buttons
    /\ apiCalls' = AsyncPress(b, entry.device_id)
    /\ raised' = outcome
    /\ lastOp' = [op |-> "press", button |-> b]
    /\ published' = 0
    /\ panels' = QuietPanels
    /\ sensors' = QuietSensors
    /\ dispatched' = {}
    /\ UNCHANGED <<entry, pc, data, setupRaised, sensorsAdded, buttons,
                   getDeviceCalls, received, oldPanels, oldApiCalls, flow,
                   configEntries>>

Services == DOMAIN PanelCommands

NextWith(devices, payloads) ==
    \/ \E response \in Responses(devices) : Fetch(response)
    \/ \E response \in Responses(devices) : Tick(response)
    \/ SetupPlatforms
    \/ \E payload \in payloads : Mqtt(payload)
    \/ \E i \in DOMAIN panels, service \in Services : PanelCommand(i, service)
    \/ \E b \in buttons, outcome \in {"None", "OlarmFlowClientApiError"} :
          Press(b, outcome)

Init == InitWith(Entries)

Next == NextWith(Devices, Payloads)

Spec == Init /\ [][Next]_vars

\* the same program under the inputs that vary the zones
NextZones == NextWith(ZoneDevices, ZonePayloads)

SpecZones == Init /\ [][NextZones]_vars

\* the same program under the inputs that vary the area states
NextStateMap == NextWith(StateMapDevices, StateMapPayloads)

SpecStateMap == Init /\ [][NextStateMap]_vars

\* the same program under the inputs with every kind of button
InitButtons == InitWith(ButtonEntries)

NextButtons == NextWith(ButtonDevices, ButtonPayloads)

SpecButtons == InitButtons /\ [][NextButtons]_vars

\* the legacy area panels set up next to the rewritten ones and fed the same
\* updates and the same commands
LegacySetup ==
    /\ SetupPlatformsCore
    /\ oldPanels' = OldAsyncSetupEntry(data.device_state).panels
    /\ oldApiCalls' = <<>>
    /\ UNCHANGED <<flow, configEntries>>

LegacyUpdate(payload) ==
    /\ MqttCore(payload)
    /\ oldPanels' = [i \in DOMAIN oldPanels |->
                       OldHandleMqttUpdate(Quiet(oldPanels[i]), entry.device_id,
                                           entry.device_id, payload)]
    /\ oldApiCalls' = <<>>
    /\ UNCHANGED <<flow, configEntries>>

LegacyCommand(i, service, outcome) ==
    /\ i \in DOMAIN oldPanels
    /\ PanelCommandCore(i, service)
    /\ LET r == OldAsyncAlarm(Quiet(oldPanels[i]), entry.device_id, service,
                              outcome)
       IN /\ oldPanels' = [[k \in DOMAIN oldPanels |-> Quiet(oldPanels[k])]
                             EXCEPT ![i] = r.panel]
          /\ oldApiCalls' = r.calls
    /\ UNCHANGED <<flow, configEntries>>

NextLegacy ==
    \/ \E response \in Responses(LegacyDevices) : Fetch(response)
    \/ LegacySetup
    \/ \E payload \in LegacyPayloads : LegacyUpdate(payload)
    \/ \E i \in DOMAIN panels, service \in LegacyServices,
          outcome \in {"None", "OlarmFlowClientApiError"} :
          LegacyCommand(i, service, outcome)

SpecLegacy == Init /\ [][NextLegacy]_vars

\* The step the flow manager calls next for a result
AtOf(result) ==
    IF result.type = "form" THEN result.step_id
    ELSE IF result.type = "external" THEN "oauth"
    ELSE "done"

\* The variables the config flow leaves alone
programVars ==
    <<entry, pc, data, setupRaised, panels, sensors, sensorsAdded, buttons,
      getDeviceCalls, apiCalls, published, raised, received, dispatched,
      oldPanels, oldApiCalls, lastOp>>

\* A step of the flow has returned r: the flow manager keeps the handler and
\* the result; `before` holds the entries as they were before the step
FlowStep(op, r) ==
    /\ flow' = [at |-> AtOf(r.result), op |-> op, h |-> r.h, result |-> r.result,
                reloaded |-> r.reloaded, before |-> configEntries]
    /\ configEntries' = r.entries
    /\ UNCHANGED programVars

\* A flow is started from the user interface, or for reauthentication
FlowInit(context) ==
    /\ flow.at \in {"none", "done"}
    /\ LET h == NewFlowHandler(context.source, context.entry_id) IN
       FlowStep("init", IF context.source = "reauth"
                        THEN AsyncStepReauth(h, configEntries)
                        ELSE AsyncStepUser(h, configEntries))

\* The user confirms the reauthentication
FlowReauthConfirm ==
    /\ flow.at = "reauth_confirm"
    /\ FlowStep("reauth_confirm",
                AsyncStepReauthConfirm(flow.h, configEntries, EmptyDict))

\* The OAuth exchange has completed with tokens
FlowOauthCreateEntry(oauth, outcome) ==
    /\ flow.at = "oauth"
    /\ FlowStep("oauth_create_entry",
                AsyncOauthCreateEntry(flow.h, configEntries, oauth, outcome))

\* The user picks one of the devices offered
FlowStepDevice(device_id) ==
    /\ flow.at = "device"
    /\ device_id \in flow.result.options
    /\ FlowStep("device",
                AsyncStepDevice(flow.h, configEntries,
                                [select_device |-> device_id]))

\* The user submits the form shown after invalid_auth
FlowStepUser ==
    /\ flow.at = "user"
    /\ FlowStep("user", AsyncStepUser(flow.h, configEntries))

InitFlow ==
    /\ InitProgram(Entries)
    /\ flow = NoFlow
    /\ configEntries \in {{}, {InstalledEntry}}

NextFlow ==
    \/ \E context \in FlowContexts : FlowInit(context)
    \/ FlowReauthConfirm
    \/ \E oauth \in OauthData, outcome \in GetDevicesOutcomes :
          FlowOauthCreateEntry(oauth, outcome)
    \/ \E device_id \in DOMAIN EntryIdFor : FlowStepDevice(device_id)
    \/ FlowStepUser

SpecFlow == InitFlow /\ [][NextFlow]_vars

----------------------------------------------------------------------------
(* The properties *)

\* The alarm state the host shows for each vendor area state
DisplayedFor ==
    [v \in {"disarm", "notready"} |-> "disarmed"]
    @@ [v \in {"stay", "stayarm1", "stayarm2", "stayarm3", "stayarm4"} |-> "armed_home"]
    @@ [v \in {"arm"} |-> "armed_away"]
    @@ [v \in {"sleep"} |-> "armed_night"]
    @@ [v \in {"alarm", "emergency", "fire", "medical"} |-> "triggered"]
    @@ [v \in {"partarm1", "partarm2", "partarm3", "partarm4",
               "customarm1", "customarm2", "customarm3", "customarm4"}
           |-> "armed_custom_bypass"]
    @@ [v \in {"entrydelay"} |-> "pending"]

\* C1: once the platforms are set up, after the fetch and any MQTT payloads,
\* every area panel displays the alarm state that STATE_MAP gives for that
\* area's entry in the most recently received deviceState (disarm/notready
\* -> DISARMED, stay/stayarm1-4 -> ARMED_HOME, arm -> ARMED_AWAY, sleep ->
\* ARMED_NIGHT, alarm/emergency/fire/medical -> TRIGGERED, partarm1-4/
\* customarm1-4 -> ARMED_CUSTOM_BYPASS, entrydelay -> PENDING).  It is
\* stated for every state, so also for those with no command since the
\* last payload.
C1_PanelDisplaysMappedState ==
    pc = "running" =>
        \A i \in DOMAIN panels :
            LET areas == Get(received[1], "areas", <<>>) IN
            (i <= Len(areas) /\ areas[i] \in DOMAIN DisplayedFor) =>
                /\ panels[i].alarm_state = DisplayedFor[areas[i]]
                /\ panels[i].ha_state.state = DisplayedFor[areas[i]]

\* C1's case: an MQTT deviceState has moved area 2 to customarm3 and area 1
\* is disarmed; the panels show ARMED_CUSTOM_BYPASS and DISARMED
C1_Witness ==
    /\ pc = "running"
    /\ lastOp.op = "mqtt"
    /\ "deviceState" \in lastOp.keys
    /\ Len(panels) >= 2
    /\ Get(received[1], "areas", <<>>) = OneAt(MaxAreas, 2, "customarm3", "disarm")
    /\ panels[2].ha_state.state = "armed_custom_bypass"
    /\ panels[1].ha_state.state = "disarmed"

\* C2 as the spec has it: after any MQTT payloads, for every zone index
\* with a sensor created at setup, the zone sensor is on exactly when that
\* entry of zones in the most recently received deviceState is "a", and the
\* zone-bypass sensor is on exactly when it is "b"
C2_ZoneSensorsShowLastZones ==
    pc = "running" =>
        \A s \in sensors :
            LET zones == Get(received[1], "zones", <<>>) IN
            (s.key \in {"zone", "zone_bypass"} /\ s.sensor_index < Len(zones)) =>
                (s.is_on <=> zones[s.sensor_index + 1]
                               = (IF s.key = "zone" THEN "a" ELSE "b"))

\* C3 as the spec has it: when a payload's deviceState arrives while data
\* is cached, the sub-fields of the cached device_state that it does not
\* mention keep the values they had
C3_UnmentionedSubFieldsKept ==
    [][(lastOp'.op = "mqtt" /\ "deviceState" \in lastOp'.keys /\ data # NoData) =>
          \A k \in DOMAIN data.device_state \ DOMAIN received'[1] :
              /\ Has(data'.device_state, k)
              /\ data'.device_state[k] = data.device_state[k]]_vars

\* C3, amended: a payload's deviceState that arrives while data is cached
\* replaces the cached device_state as a whole, so the cached device_state
\* afterwards is exactly the payload's deviceState (sub-fields it does not
\* mention are gone)
C3_DeviceStateReplaced ==
    [][(lastOp'.op = "mqtt" /\ "deviceState" \in lastOp'.keys /\ data # NoData) =>
          data'.device_state = received'[1]]_vars

\* C3's case: the cache held zones at setup (zone sensors were built), and
\* the last payload's deviceState carried areas only: zones and powerAC are
\* no longer cached
C3_Witness ==
    /\ pc = "running"
    /\ lastOp.op = "mqtt"
    /\ "deviceState" \in lastOp.keys
    /\ \E s \in sensors : s.key = "zone"
    /\ DOMAIN data.device_state = {"areas"}
    /\ DOMAIN received[1] = {"areas"}

\* C4: an MQTT payload changes only the cached fields whose key it holds
\* (deviceState -> device_state, deviceLinks -> device_links, deviceIO ->
\* device_io); the other ones of these three, and always device_name,
\* device_profile, device_profile_links and device_profile_io, are unchanged
C4_OnlyPresentKeysChange ==
    [][lastOp'.op = "mqtt" =>
          IF data = NoData
          THEN data' = data
          ELSE /\ data' # NoData
               /\ ("deviceState" \notin lastOp'.keys
                      => data'.device_state = data.device_state)
               /\ ("deviceLinks" \notin lastOp'.keys
                      => data'.device_links = data.device_links)
               /\ ("deviceIO" \notin lastOp'.keys
                      => data'.device_io = data.device_io)
               /\ data'.device_name = data.device_name
               /\ data'.device_profile = data.device_profile
               /\ data'.device_profile_links = data.device_profile_links
               /\ data'.device_profile_io = data.device_profile_io]_vars

\* C4's case: a payload with deviceState only has been merged, and the
\* links and IO that earlier payloads had set are still cached
C4_Witness ==
    /\ lastOp.op = "mqtt"
    /\ lastOp.keys = {"deviceState"}
    /\ data # NoData
    /\ data.device_links = LinksB
    /\ data.device_io = IOB
    /\ data.device_state = received[1]

\* C5 as the spec has it: exactly one republish for each MQTT payload that
\* holds at least one of deviceState, deviceLinks, deviceIO, and none for
\* a payload that holds none of them
C5_OncePerPayloadWithAKey ==
    lastOp.op = "mqtt" =>
        published = IF lastOp.keys \cap {"deviceState", "deviceLinks", "deviceIO"} # {}
                    THEN 1 ELSE 0

\* C5, amended: while the coordinator holds data, exactly one republish for
\* each MQTT payload that holds at least one of deviceState, deviceLinks,
\* deviceIO and none for a payload that holds none of them; while it holds
\* no data, none for any payload
C5_OncePerPayloadWhileDataHeld ==
    lastOp.op = "mqtt" =>
        published = IF /\ data # NoData
                       /\ lastOp.keys \cap {"deviceState", "deviceLinks", "deviceIO"} # {}
                    THEN 1 ELSE 0

\* C5's case: a payload holding all three keys arrived while data was
\* cached and was republished once
C5_Witness ==
    /\ lastOp.op = "mqtt"
    /\ lastOp.keys = {"deviceState", "deviceLinks", "deviceIO"}
    /\ data # NoData
    /\ published = 1

\* The client call each panel service is to end in
AreaCallFor ==
    ("alarm_disarm" :> "send_device_area_disarm")
    @@ ("alarm_arm_away" :> "send_device_area_arm")
    @@ ("alarm_arm_home" :> "send_device_area_stay")
    @@ ("alarm_arm_night" :> "send_device_area_sleep")

\* C6 as the spec has it: each user action on an area panel makes exactly
\* one outbound API call of the matching kind (disarm -> send_area_disarm,
\* arm away -> send_area_arm, arm home -> send_area_stay, arm night ->
\* send_area_sleep) for the panel's device_id and area
C6_OneMatchingCallPerCommand ==
    lastOp.op = "command" =>
        apiCalls = <<[method |-> AreaCallFor[lastOp.service],
                      device_id |-> entry.device_id,
                      num |-> lastOp.panel]>>

\* The client call each button description key names
ButtonCallFor ==
    [zone_bypass |-> "send_device_zone_bypass",
     zone_unbypass |-> "send_device_zone_unbypass",
     pgm_open |-> "send_device_pgm_open",
     pgm_close |-> "send_device_pgm_close",
     pgm_pulse |-> "send_device_pgm_pulse",
     ukey |-> "send_device_ukey_activate",
     link_output_open |-> "send_device_link_output_open",
     link_output_close |-> "send_device_link_output_close",
     link_output_pulse |-> "send_device_link_output_pulse",
     link_relay_unlatch |-> "send_device_link_relay_unlatch",
     link_relay_latch |-> "send_device_link_relay_latch",
     link_relay_pulse |-> "send_device_link_relay_pulse",
     max_output_open |-> "send_device_max_output_open",
     max_output_close |-> "send_device_max_output_close",
     max_output_pulse |-> "send_device_max_output_pulse"]

\* C7: pressing a button makes exactly one outbound API call, of the kind
\* its description key names, with the button's device_id, its index and,
\* for a LINK button, its link_id; the press changes no cached data
C7_OneCallPerPress ==
    [][lastOp'.op = "press" =>
          LET b == lastOp'.button IN
          /\ data' = data
          /\ Len(apiCalls') = 1
          /\ apiCalls'[1].method = ButtonCallFor[b.key]
          /\ apiCalls'[1].device_id = entry.device_id
          /\ apiCalls'[1].num = b.button_index
          /\ IF b.key \in {"link_output_open", "link_output_close",
                           "link_output_pulse", "link_relay_unlatch",
                           "link_relay_latch", "link_relay_pulse"}
             THEN /\ DOMAIN apiCalls'[1] = {"method", "device_id", "link_id", "num"}
                  /\ apiCalls'[1].link_id = b.link_id
             ELSE DOMAIN apiCalls'[1] = {"method", "device_id", "num"}]_vars

\* C7's case: the pulse button of relay 2 of LINK module L1 was pressed and
\* one send_device_link_relay_pulse call for L1, index 1 went out
C7_Witness ==
    /\ lastOp.op = "press"
    /\ lastOp.button.key = "link_relay_pulse"
    /\ lastOp.button.button_index = 1
    /\ Len(apiCalls) = 1
    /\ apiCalls[1].method = "send_device_link_relay_pulse"
    /\ apiCalls[1].link_id = "L1"
    /\ apiCalls[1].num = 1

\* C8: when get_device raises OlarmFlowClientApiError during the fetch,
\* _async_update_data raises UpdateFailed and returns no data, and the
\* cached data stays as it was
C8_FailedFetchRaisesUpdateFailed ==
    [][(lastOp'.op = "fetch" /\ lastOp'.error) =>
          /\ raised' = "UpdateFailed"
          /\ lastOp'.returned = NoData
          /\ data' = data]_vars

\* C8's case: the fetch has failed
C8_Witness ==
    /\ lastOp.op = "fetch"
    /\ lastOp.error
    /\ raised = "UpdateFailed"
    /\ pc = "failed"
    /\ data = NoData

\* C9: get_device is called once, by the fetch at setup, and by nothing
\* after it (no timer, no MQTT payload, no retry of a failed fetch); after
\* the fetch the cached data changes only through async_update_from_mqtt
C9_FetchedOnce ==
    [][/\ (getDeviceCalls' # getDeviceCalls =>
              /\ pc = "new"
              /\ lastOp'.op = "fetch"
              /\ getDeviceCalls' = 1)
       /\ ((pc # "new" /\ lastOp'.op # "mqtt") => data' = data)]_vars

\* C9's case: the fetch failed, the refresh timer's turn has passed, and
\* still one get_device call was made
C9_Witness ==
    /\ pc = "failed"
    /\ lastOp.op = "tick"
    /\ getDeviceCalls = 1

\* C10 as the spec has it: a command on the panel of area i sends a command
\* for that area and for no other, and leaves the displayed state and the
\* stored area_state of every other panel unchanged
C10_CommandTouchesOwnAreaOnly ==
    [][lastOp'.op = "command" =>
          /\ Len(apiCalls') >= 1
          /\ \A k \in DOMAIN apiCalls' : apiCalls'[k].num = lastOp'.panel
          /\ \A j \in DOMAIN panels :
                j # lastOp'.panel =>
                    /\ panels'[j].ha_state = panels[j].ha_state
                    /\ panels'[j].alarm_state = panels[j].alarm_state
                    /\ panels'[j].area_state = panels[j].area_state]_vars

\* C11 as the spec has it: when the platforms are set up right after the
\* fetch, the host gets one panel per entry of the fetched areas list and
\* two sensors (zone, zone bypass) per entry of the fetched zones list; no
\* MQTT payload adds or removes a panel or a sensor
C11_EntitiesFixedAtSetup ==
    [][/\ (lastOp'.op = "setup" /\ lastOp.op = "fetch") =>
            LET areas == Get(lastOp.returned.device_state, "areas", <<>>)
                zones == Get(lastOp.returned.device_state, "zones", <<>>)
            IN /\ {PanelId(panels'[i]) : i \in DOMAIN panels'}
                    = {<<"area", i - 1, "None">> : i \in 1..Len(areas)}
               /\ {SensorId(s) : s \in {x \in AddedSensors' :
                                          x.key \in {"zone", "zone_bypass"}}}
                    = {<<key, i - 1, "None">> :
                          key \in {"zone", "zone_bypass"}, i \in 1..Len(zones)}
       /\ lastOp'.op = "mqtt" =>
            /\ {PanelId(panels'[i]) : i \in DOMAIN panels'}
                 = {PanelId(panels[i]) : i \in DOMAIN panels}
            /\ {SensorId(s) : s \in AddedSensors'}
                 = {SensorId(s) : s \in AddedSensors}]_vars

\* C12 as the spec has it: a payload is dispatched only to the entities it
\* affects -- a payload without deviceState reaches no panel and leaves the
\* alarm state every panel displays unchanged
C12_OnlyAffectedEntitiesCalled ==
    [][(lastOp'.op = "mqtt" /\ "deviceState" \notin lastOp'.keys) =>
          /\ \A i \in DOMAIN panels : PanelId(panels[i]) \notin dispatched'
          /\ \A i \in DOMAIN panels :
                panels'[i].alarm_state = panels[i].alarm_state]_vars

\* C12, amended: every republished payload is dispatched to every panel,
\* whatever keys it holds, and a payload that is not republished to none;
\* after a dispatch each panel displays the state mapped from its area in
\* the cached device_state, which a payload without deviceState leaves as
\* it was
C12_EveryPanelCalled ==
    [][lastOp'.op = "mqtt" =>
          /\ published' > 0 =>
                \A i \in DOMAIN panels :
                   /\ PanelId(panels[i]) \in dispatched'
                   /\ panels'[i].alarm_state
                        = LET areas == Get(data'.device_state, "areas", <<>>)
                              k == panels[i].area_index + 1
                          IN IF k \in DOMAIN areas /\ areas[k] \in DOMAIN DisplayedFor
                             THEN DisplayedFor[areas[k]] ELSE "disarmed"
          /\ published' = 0 => dispatched' = {}
          /\ "deviceState" \notin lastOp'.keys =>
                /\ data # NoData => data'.device_state = data.device_state
                /\ \A i \in DOMAIN panels :
                      panels'[i].alarm_state = panels[i].alarm_state]_vars

\* C12's case: a payload holding deviceLinks and/or deviceIO but no
\* deviceState was republished and reached the panels
C12_Witness ==
    /\ lastOp.op = "mqtt"
    /\ lastOp.keys # {}
    /\ "deviceState" \notin lastOp.keys
    /\ panels # <<>>
    /\ published > 0
    /\ \A i \in DOMAIN panels : PanelId(panels[i]) \in dispatched

\* C13 as the spec has it: the cached struct holds the fence state, and once
\* the platforms are set up the binary-sensor setup has completed, without
\* an exception and with its sensors handed to the host, for every fetched
\* device
C13_FenceBackedSetupCompletes ==
    pc = "running" =>
        /\ "device_fence" \in DOMAIN data
        /\ setupRaised.binary_sensor = "None"
        /\ sensorsAdded

\* C14 as the spec has it: after a panel command the panel displays PENDING
\* and has written it to the host, and a panel displaying PENDING keeps it
\* on every step that does not dispatch a coordinator update to it
C14_PendingUntilNextUpdate ==
    [][/\ lastOp'.op = "command" =>
            LET p == panels'[lastOp'.panel] IN
            /\ p.alarm_state = PENDING
            /\ p.ha_state.state = PENDING
            /\ p.ha_writes = 1
       /\ \A i \in DOMAIN panels :
            (panels[i].alarm_state = PENDING /\ i \in DOMAIN panels'
             /\ PanelId(panels[i]) \notin dispatched') =>
                panels'[i].alarm_state = PENDING]_vars

CommonAreaStates ==
    {"disarm", "notready", "stay", "arm", "sleep",
     "alarm", "emergency", "fire", "medical"}

ExpectedKeys(item, modeKey, latchKeys, pulseKey) ==
    IF ~Get(item, "enabled", FALSE) THEN {}
    ELSE IF Get(item, modeKey, "None") = "latch" THEN latchKeys
    ELSE IF Get(item, modeKey, "None") = "pulse" THEN {pulseKey}
    ELSE {}

\* The entities the host holds for item `index` of link `link_id`: the keys
\* of its buttons among `keys`, and the number of its state sensors
ButtonKeysOf(index, link_id, keys) ==
    {b.key : b \in {x \in buttons : /\ x.button_index = index
                                    /\ x.link_id = link_id
                                    /\ x.key \in keys}}

SensorsOf(index, link_id, key) ==
    Cardinality({x \in AddedSensors : /\ x.sensor_index = index
                                      /\ x.link_id = link_id
                                      /\ x.key = key})

\* C16 as the spec has it: once the platforms are set up, every output of a
\* LINK or of the MAX board and every LINK relay has, by its mode alone, the
\* open and close (latch and unlatch) buttons plus one state sensor when
\* enabled in latch mode, one pulse button and no sensor when enabled in
\* pulse mode, and nothing otherwise
C16_EntitiesByOutputMode ==
    (pc = "running" /\ data # NoData) =>
        /\ \A link_id \in DOMAIN data.device_profile_links :
              LET io == Get(data.device_profile_links[link_id], "io", <<>>)
                  relays == Get(data.device_profile_links[link_id], "relays", <<>>)
              IN /\ \A i \in 1..Len(io) :
                       Get(io[i], "type", "None") = "output" =>
                          LET keys == ExpectedKeys(io[i], "outputMode",
                                         {"link_output_open", "link_output_close"},
                                         "link_output_pulse")
                          IN /\ ButtonKeysOf(i - 1, link_id,
                                   {"link_output_open", "link_output_close",
                                    "link_output_pulse"}) = keys
                             /\ SensorsOf(i - 1, link_id, "link_output")
                                  = IF Cardinality(keys) = 2 THEN 1 ELSE 0
                 /\ \A i \in 1..Len(relays) :
                       LET keys == ExpectedKeys(relays[i], "relayMode",
                                      {"link_relay_latch", "link_relay_unlatch"},
                                      "link_relay_pulse")
                       IN /\ ButtonKeysOf(i - 1, link_id,
                                {"link_relay_latch", "link_relay_unlatch",
                                 "link_relay_pulse"}) = keys
                          /\ SensorsOf(i - 1, link_id, "relay_output")
                               = IF Cardinality(keys) = 2 THEN 1 ELSE 0
        /\ LET io == Get(data.device_profile_io, "io", <<>>) IN
           \A i \in 1..Len(io) :
              Get(io[i], "type", "None") = "output" =>
                 LET keys == ExpectedKeys(io[i], "outputMode",
                                {"max_output_open", "max_output_close"},
                                "max_output_pulse")
                 IN /\ ButtonKeysOf(i - 1, "None",
                          {"max_output_open", "max_output_close",
                           "max_output_pulse"}) = keys
                    /\ SensorsOf(i - 1, "None", "max_output")
                         = IF Cardinality(keys) = 2 THEN 1 ELSE 0

\* The alarm state the panel of area_index is to display for cached data d
DisplayedNow(area_index, d) ==
    LET areas == Get(d.device_state, "areas", <<>>) IN
    IF area_index < Len(areas) /\ areas[area_index + 1] \in DOMAIN DisplayedFor
    THEN DisplayedFor[areas[area_index + 1]]
    ELSE DISARMED

\* C17 as the spec has it: on a coordinator update every panel and every
\* binary sensor writes its state to the host exactly once when the value
\* derived from the new data differs from the one it had, and not at all
\* when it is the same
C17_WriteExactlyOnChange ==
    [][(lastOp'.op = "mqtt" /\ published' > 0) =>
          /\ \A i \in DOMAIN panels :
                panels'[i].ha_writes
                  = IF DisplayedNow(panels[i].area_index, data')
                       # panels[i].alarm_state THEN 1 ELSE 0
          /\ \A s \in sensors :
                LET v == ValueFn(s.key, data', s.sensor_index, s.link_id) IN
                v.raised = "None" =>
                   \E t \in sensors' :
                      /\ SensorId(t) = SensorId(s)
                      /\ t.ha_writes = IF v.value # s.is_on THEN 1 ELSE 0]_vars

\* C18 as the spec has it: whenever the host shows a panel as
\* ARMED_CUSTOM_BYPASS, the armed_custom_bypass_profile attribute of the state
\* last written to the host is the area's value in the cached device_state,
\* also after an update from one such value to another
C18_ProfileAttributeCurrent ==
    (pc = "running" /\ data # NoData) =>
        \A i \in DOMAIN panels :
            LET areas == Get(data.device_state, "areas", <<>>) IN
            (panels[i].ha_state.state = ARMED_CUSTOM_BYPASS /\ i <= Len(areas)) =>
                panels[i].ha_state.attributes.armed_custom_bypass_profile
                  = areas[i]

\* C19: after the setup and after every update dispatched to it, a panel
\* displays DISARMED, on the host too, when the cached device_state has no
\* areas list, when its area_index is beyond the end of that list, and when
\* the area's value is not a key of STATE_MAP; where the list does not reach
\* its index the stored area_state keeps the value it had; recomputed with
\* no coordinator data the panel would display DISARMED
C19_DisarmedWithoutMappedState ==
    [][(lastOp'.op \in {"setup", "mqtt"} /\ data' # NoData
        /\ (lastOp'.op = "mqtt" => published' > 0)) =>
          \A i \in DOMAIN panels' :
             LET areas == Get(data'.device_state, "areas", <<>>) IN
             /\ (~Has(data'.device_state, "areas") \/ i > Len(areas)) =>
                   /\ panels'[i].alarm_state = DISARMED
                   /\ panels'[i].ha_state.state = DISARMED
                   /\ i \in DOMAIN panels =>
                         panels'[i].area_state = panels[i].area_state
             /\ (i <= Len(areas) /\ areas[i] \notin DOMAIN DisplayedFor) =>
                   /\ panels'[i].alarm_state = DISARMED
                   /\ panels'[i].ha_state.state = DISARMED
             /\ UpdateAlarmState(panels'[i], NoData).alarm_state = DISARMED]_vars

\* C19's case: the second panel displayed ARMED_NIGHT for "sleep" and a
\* deviceState whose areas list holds one entry has arrived; the panel
\* displays DISARMED, has written it and still stores "sleep"
C19_Witness ==
    /\ pc = "running"
    /\ lastOp.op = "mqtt"
    /\ Get(received[1], "areas", <<>>) = <<"arm">>
    /\ Len(panels) >= 2
    /\ panels[2].area_state = "sleep"
    /\ panels[2].alarm_state = DISARMED
    /\ panels[2].ha_state.state = DISARMED
    /\ panels[2].ha_writes = 1

\* C20: when the platforms are set up, PGM i gets buttons from its
\* pgmControl string alone -- none unless its first character is "1", then
\* open and close exactly when the second is "1" and pulse exactly when the
\* third is "1"; utility key j gets a button exactly when ukeysControl[j] is
\* 1; every zone gets a bypass and an unbypass button when the entry's
\* load_zones_bypass_entities flag is set and no zone gets one otherwise; no
\* later step changes the buttons
C20_ButtonsFromProfile ==
    [][/\ lastOp'.op = "setup" =>
            LET pgm == Get(data.device_profile, "pgmControl", <<>>)
                ukeys == Get(data.device_profile, "ukeysControl", <<>>)
                zones == Get(data.device_state, "zones", <<>>)
                flag == Has(entry, "load_zones_bypass_entities")
                        /\ entry.load_zones_bypass_entities
            IN /\ \A i \in 1..Len(pgm) :
                    ButtonKeysOf(i - 1, "None",
                                 {"pgm_open", "pgm_close", "pgm_pulse"})'
                      = IF pgm[i][1] # "1" THEN {}
                        ELSE (IF pgm[i][2] = "1"
                              THEN {"pgm_open", "pgm_close"} ELSE {})
                             \cup (IF pgm[i][3] = "1" THEN {"pgm_pulse"} ELSE {})
               /\ {b.button_index : b \in {x \in buttons' : x.key = "ukey"}}
                    = {j - 1 : j \in {k \in 1..Len(ukeys) : ukeys[k] = 1}}
               /\ {<<b.key, b.button_index>> :
                      b \in {x \in buttons' :
                               x.key \in {"zone_bypass", "zone_unbypass"}}}
                    = IF flag
                      THEN {"zone_bypass", "zone_unbypass"} \X {z - 1 : z \in 1..Len(zones)}
                      ELSE {}
               /\ \A b \in buttons' :
                     b.key \in {"pgm_open", "pgm_close", "pgm_pulse"} =>
                        b.button_index + 1 \in 1..Len(pgm)
       /\ lastOp'.op # "setup" => buttons' = buttons]_vars

\* C20's case: an entry with the flag set was set up for a profile whose
\* PGMs are "110", "101" and "011": zone 1 has its bypass button, PGM 1 has
\* open and no pulse, PGM 2 has pulse and no open, PGM 3 has no button
C20_Witness ==
    /\ pc = "running"
    /\ Has(entry, "load_zones_bypass_entities")
    /\ Get(data.device_profile, "pgmControl", <<>>)
         = << <<"1", "1", "0">>, <<"1", "0", "1">>, <<"0", "1", "1">> >>
    /\ NewButton("zone_bypass", 0, "None") \in buttons
    /\ ButtonKeysOf(0, "None", {"pgm_open", "pgm_close", "pgm_pulse"})
         = {"pgm_open", "pgm_close"}
    /\ ButtonKeysOf(1, "None", {"pgm_open", "pgm_close", "pgm_pulse"})
         = {"pgm_pulse"}
    /\ ButtonKeysOf(2, "None", {"pgm_open", "pgm_close", "pgm_pulse"}) = {}
    /\ ButtonKeysOf(0, "None", {"ukey"}) = {"ukey"}
    /\ ButtonKeysOf(1, "None", {"ukey"}) = {}

\* C24: an MQTT payload that arrives while the coordinator holds no data is
\* ignored -- the cached data stays empty, nothing is republished, no entity
\* is called back and no panel, sensor or button changes
C24_PayloadWithoutDataIgnored ==
    [][(lastOp'.op = "mqtt" /\ data = NoData) =>
          /\ data' = NoData
          /\ published' = 0
          /\ dispatched' = {}
          /\ panels' = panels
          /\ sensors' = sensors
          /\ buttons' = buttons
          /\ pc' = pc]_vars

\* C24's case: a payload holding deviceState, deviceLinks and deviceIO
\* arrived before any fetch succeeded and the coordinator still holds no data
C24_Witness ==
    /\ lastOp.op = "mqtt"
    /\ lastOp.keys = {"deviceState", "deviceLinks", "deviceIO"}
    /\ pc \in {"new", "failed"}
    /\ data = NoData
    /\ published = 0

ReauthKeys == {"token", "auth_implementation", "user_id"}

EntryIds(entries) == {e.entry_id : e \in entries}

\* C21: in the config flow the outcome of get_devices decides the next step
\* and no path creates an entry on failure -- DevicesNotFound aborts with
\* no_devices_found, any other client error shows the user form with error
\* invalid_auth, success runs the reauth-complete step when the source is
\* reauth and the device-selection step otherwise
C21_GetDevicesOutcomeDecides ==
    [][\A oauth \in OauthData, outcome \in GetDevicesOutcomes :
          FlowOauthCreateEntry(oauth, outcome) =>
             /\ flow'.result.type # "create_entry"
             /\ EntryIds(configEntries') = EntryIds(configEntries)
             /\ outcome.raised = "DevicesNotFound" =>
                   /\ flow'.result = AsyncAbort("no_devices_found")
                   /\ configEntries' = configEntries
             /\ outcome.raised = "OlarmFlowClientApiError" =>
                   /\ flow'.result.type = "form"
                   /\ flow'.result.step_id = "user"
                   /\ flow'.result.errors = [base |-> "invalid_auth"]
                   /\ configEntries' = configEntries
             /\ (outcome.raised = "None" /\ flow.h.source = "reauth") =>
                   /\ flow'.result.type = "abort"
                   /\ flow'.result.reason \in
                         {"reauth_successful", "reauth_account_not_found"}
             /\ (outcome.raised = "None" /\ flow.h.source # "reauth") =>
                   /\ configEntries' = configEntries
                   /\ IF Has(outcome.api_result, "data")
                      THEN /\ flow'.result.type = "form"
                           /\ flow'.result.step_id = "device"
                      ELSE flow'.result = AsyncAbort("no_devices_found")]_vars

C21_Witness ==
    /\ flow.op = "oauth_create_entry"
    /\ flow.result.type = "form"
    /\ flow.result.step_id = "user"
    /\ flow.h.source = "reauth"
    /\ flow.h.entry_id = "e1"
    /\ configEntries = {InstalledEntry}

\* C22: a config entry is created only by the device-selection step, only
\* when OAuth data is held and only for a device_id no entry has as unique
\* id; the step aborts with oauth_data_missing without OAuth data, with
\* no_devices_found when the device list is None, and aborts without
\* creating an entry when the selected device is already configured
C22_EntryOnlyFromDeviceStep ==
    [][/\ Cardinality(configEntries') > Cardinality(configEntries) =>
             /\ flow'.op = "device"
             /\ flow'.result.type = "create_entry"
             /\ flow'.h.oauth_data # NoOauth
             /\ Cardinality(configEntries') = Cardinality(configEntries) + 1
             /\ configEntries \subseteq configEntries'
             /\ \A e \in configEntries' \ configEntries :
                   /\ e.unique_id = flow'.h.device_id
                   /\ e.data = flow'.result.data
                   /\ e.data.device_id = flow'.h.device_id
                   /\ e.data.token = flow'.h.oauth_data.token
                   /\ ~\E old \in configEntries : old.unique_id = e.unique_id
       /\ \A device_id \in DOMAIN EntryIdFor :
             /\ (/\ FlowStepDevice(device_id)
                 /\ \E e \in configEntries : e.unique_id = device_id) =>
                   /\ flow'.result.type = "abort"
                   /\ configEntries' = configEntries
             /\ (/\ FlowStepDevice(device_id)
                 /\ ~\E e \in configEntries : e.unique_id = device_id) =>
                   /\ flow'.result.type = "create_entry"
                   /\ Cardinality(configEntries') = Cardinality(configEntries) + 1
             /\ LET r == AsyncStepDevice([flow.h EXCEPT !.oauth_data = NoOauth],
                                         configEntries,
                                         [select_device |-> device_id])
                IN /\ r.result = AsyncAbort("oauth_data_missing")
                   /\ r.entries = configEntries
       /\ LET r == AsyncStepDevice([flow.h EXCEPT !.devices = NoDevices],
                                   configEntries, NoInput)
          IN /\ r.result = AsyncAbort("no_devices_found")
             /\ r.entries = configEntries]_vars

C22_Witness ==
    /\ flow.op = "device"
    /\ flow.result.type = "abort"
    /\ flow.h.oauth_data # NoOauth
    /\ \E e \in configEntries : e.unique_id = flow.h.device_id
    /\ configEntries = flow.before
    /\ Cardinality(configEntries) = 2

\* C23: completing reauthentication never creates an entry -- it updates the
\* existing entry in place, replacing only token, auth_implementation and
\* user_id and keeping device_id and every other stored key, reloads the entry
\* and aborts with reauth_successful; when the OAuth data, the entry id or the
\* entry is missing it aborts and leaves every entry unchanged
C23_ReauthUpdatesInPlace ==
    [][/\ \A oauth \in OauthData, outcome \in GetDevicesOutcomes :
             (/\ FlowOauthCreateEntry(oauth, outcome)
              /\ flow.h.source = "reauth"
              /\ outcome.raised = "None") =>
                /\ flow'.result.type = "abort"
                /\ Cardinality(configEntries') = Cardinality(configEntries)
                /\ EntryIds(configEntries') = EntryIds(configEntries)
                /\ IF flow.h.entry_id \in EntryIds(configEntries)
                   THEN /\ flow'.result.reason = "reauth_successful"
                        /\ flow'.reloaded = flow.h.entry_id
                        /\ \A e \in configEntries :
                              IF e.entry_id # flow.h.entry_id
                              THEN e \in configEntries'
                              ELSE \E u \in configEntries' :
                                      /\ u.entry_id = e.entry_id
                                      /\ u.unique_id = e.unique_id
                                      /\ DOMAIN u.data = DOMAIN e.data \cup ReauthKeys
                                      /\ \A k \in DOMAIN e.data \ ReauthKeys :
                                            u.data[k] = e.data[k]
                                      /\ u.data.token = oauth.token
                                      /\ u.data.auth_implementation =
                                            oauth.auth_implementation
                                      /\ u.data.user_id =
                                            Get(outcome.api_result, "userId", "None")
                   ELSE /\ flow'.result.reason = "reauth_account_not_found"
                        /\ flow'.reloaded = "None"
                        /\ configEntries' = configEntries
       /\ LET r == AsyncStepReauthComplete([flow.h EXCEPT !.oauth_data = NoOauth],
                                           configEntries)
          IN /\ r.result = AsyncAbort("oauth_data_missing")
             /\ r.entries = configEntries
             /\ r.reloaded = "None"]_vars

C23_Witness ==
    /\ flow.op = "oauth_create_entry"
    /\ flow.result = AsyncAbort("reauth_successful")
    /\ flow.reloaded = "e1"
    /\ Cardinality(configEntries) = 2
    /\ \E e \in configEntries :
          /\ e.entry_id = "e1"
          /\ e.data.token.access_token = "t2"
          /\ e.data.user_id = "u2"
          /\ e.data.device_id = "dev1"
          /\ Has(e.data, "load_zones_bypass_entities")

====
